---- MODULE Spec2Model ----
(***************************************************************************)
(* A model of the recording engine of the CCTV/NVR client                  *)
(* (src/components/RecordingService.js).                                   *)
(*                                                                         *)
(* JavaScript runs one handler at a time.  Every async function is a       *)
(* process whose program counter names the await it is suspended at; one   *)
(* action is the code that runs between two awaits.  The completion of a   *)
(* native call (file system, media library, permissions, socket, timer) is *)
(* a macrotask and may interleave with anything; the continuation of an    *)
(* await on an async function of the service itself is a microtask and     *)
(* runs before any macrotask (MicrotaskPending).                           *)
(*                                                                         *)
(* Activations that have returned leave their table; what a call returned  *)
(* is kept in returned until the next call returns.                        *)
(***************************************************************************)
EXTENDS Integers, Sequences, FiniteSets, Bags, TLC

\* ---------------------------------------------------------------- bounds
\* What the environment may do in one run of each specification.
MaxCalls == 3         \* Spec: startRecording and stopRecording calls of the UI
MaxFrames == 1        \* Spec: socket messages delivered
MaxFaults == 1        \* Spec: native calls that reject, connections dropped
WriteFrames == 4      \* SpecWrite: socket messages delivered
WriteFaults == 1      \* SpecWrite: native calls that reject
WriteAges == 1        \* SpecWrite: times a file is found older than the rotation interval
FullFrames == 6       \* SpecDiskFull: socket messages delivered
StopFrames == 2       \* SpecStop: socket messages delivered
StopFaults == 2       \* SpecStop: native calls that reject, connections dropped
DisableFrames == 3    \* SpecDisable: socket messages delivered
DisableFaults == 1    \* SpecDisable: native calls that reject, connections dropped
PacerFrames == 12     \* SpecPacer: frames that arrive
PacerTime == 4        \* SpecPacer: times the clock advances
ClockStep == 17       \* SpecPacer: milliseconds by which the clock advances at a time
FlushFrames == 4      \* SpecFlush: socket messages delivered
FlushAges == 1        \* SpecFlush: times a file is found older than the rotation interval
FrameFrames == 4      \* SpecFrames: socket messages delivered
FrameFaults == 1      \* SpecFrames: native calls that reject
RateFrames == 2       \* SpecRate: frames that arrive
RateTime == 2         \* SpecRate: times the clock advances
RateChanges == 3      \* SpecRate: config messages and rate changes of the user
RestartCalls == 3     \* SpecRestart: startRecording and stopRecording calls of the UI
RestartFrames == 2    \* SpecRestart: socket messages delivered
ReadCalls == 2        \* SpecRead: calls of the UI
ReadFrames == 3       \* SpecRead: socket messages delivered
ProbeCalls == 2       \* SpecProbe: calls of checkCameraStatus
ProbeFaults == 1      \* SpecProbe: addresses that new WebSocket rejects
ControlChanges == 6   \* SpecControls: status changes of the camera and presses of Auto
MaxEffects == 8       \* async functions of RecordingControls suspended at one time
AutoCalls == 2        \* SpecAuto: calls of the UI on the policy
AutoFaults == 1       \* SpecAuto: native calls that reject, connections dropped

\* maxBufferSize of recordingConfig is 60 by default; the model runs the
\* service with a smaller buffer so that flushes happen within the bounds.
maxBufferSize == 2

\* ------------------------------------------------------ program constants
errorThreshold == 5         \* recordingConfig.errorThreshold
enableImageFallback == TRUE \* recordingConfig.enableImageFallback

Cameras == {"cam1", "cam2"}

VARIABLES
  permission,        \* what MediaLibrary.requestPermissionsAsync answers
  disk,              \* "ok", or "full": every writeAsStringAsync rejects
  activeRecordings,  \* this.activeRecordings: camera ip -> recording object (0: none)
  rec,               \* the recording objects ever created, by identity
  sockets,           \* the WebSocket objects ever created, by identity
  files,             \* the recording files ever named, by path
  assets,            \* paths registered with the media library
  albums,            \* camera -> paths attached to its "Security Recordings" album
  starts,            \* activations of startRecording (a bag)
  stops,             \* activations of stopRecording (a bag)
  flushes,           \* activations of _writeFramesToFile
  imgs,              \* activations of _saveFrameAsImage
  returned,          \* the last value a call of the service returned
  budget,            \* what the environment may still do in this run
  autoRecordingCameras,  \* this.autoRecordingCameras: the list of cameras
  storage,           \* the AsyncStorage item AUTO_RECORDING_CAMERAS
  sets,              \* activations of setAutoRecording
  loads,             \* activations of _loadAutoRecordingCameras (a bag of callers)
  view,              \* the state of the RecordingControls of cam1 as last rendered
  passive,           \* cleanups and effects of the renders committed, not yet run
  effects,           \* async functions of RecordingControls suspended at an await
  pacer,             \* the frame queue of the live view and what paces it (App.js)
  probes             \* activations of checkCameraStatus and their connections

\* The auto-recording policy and what works on it
policy == <<autoRecordingCameras, storage, sets, loads>>

\* The screen of a camera: RecordingControls
controls == <<view, passive, effects>>

\* The user interface on top of the service
app == <<controls, pacer, probes>>

vars == <<permission, disk, activeRecordings, rec, sockets, files, assets,
          albums, starts, stops, flushes, imgs, returned, budget, policy, app>>

\* ---------------------------------------------------------------- helpers
Ids(s) == 1..Len(s)

One(x) == SetToBag({x})

Spend(what) == [budget EXCEPT ![what] = @ - 1]

\* outcomes of a native call that may reject: failing costs one unit of budget
IoOutcomes == IF budget.faults > 0 THEN {"ok", "fail"} ELSE {"ok"}

AfterIo(o) == IF o = "ok" THEN budget ELSE Spend("faults")

\* The object literal of startRecording (lines 195-217).  History fields:
\* registered is set when the object is put into the registry and cleared when
\* stopRecording deletes the registry entry that holds it; failStreak counts
\* the writeAsStringAsync calls of frames that rejected in a row; imageNames
\* lists the sequence numbers of the image files written; finalizeFailed says
\* that a native call of _finalizeRecordingFile has rejected.
NewRecording(cam) ==
  [camera |-> cam, isActive |-> TRUE, frameCount |-> 0, frameBuffer |-> <<>>,
   useImageFallback |-> FALSE, base64ErrorCount |-> 0, imageCount |-> 0,
   successfulWrites |-> 0, framesPathCreated |-> FALSE,
   ws |-> 0, wsConnected |-> FALSE,
   currentFilePath |-> 0, currentFileStartTime |-> 0, allFiles |-> <<>>,
   totalSize |-> 0, currentFileSize |-> 0,
   imageNames |-> <<>>, registered |-> TRUE, failStreak |-> 0,
   finalizeFailed |-> FALSE]

\* A path that has been named but not written yet.  History fields: the
\* recording it was named for, and by whom ("start" or "flush").
NewFile(r, by) == [exists |-> FALSE, content |-> <<>>, rec |-> r, by |-> by]

\* new WebSocket(wsUrl) of _connectToCamera
NewSocket(r, by) == [rec |-> r, readyState |-> "CONNECTING", timer |-> FALSE, by |-> by]

\* isRecording(camera), lines 290-297
isRecording(cam) ==
  LET r == activeRecordings[cam] IN r # 0 /\ rec[r].isActive

\* What a call returns to its caller; r is the recording that the call
\* created or stopped (0: none), args what it was called with besides the
\* camera.
Return(fn, cam, result, r) ==
  [n |-> returned.n + 1, fn |-> fn, camera |-> cam, result |-> result,
   rec |-> r, args |-> <<>>]

\* ------------------------------------------------------- microtask priority
\* A continuation of `await <async function of the service>` is ready.
HasImg(r, frame) == \E m \in imgs : m.rec = r /\ m.frame = frame

HasFlush(r, first) == \E f \in flushes : f.rec = r /\ f.frames[1] = first

\* stopRecording awaits the flush of line 265 or the finalize of line 269
StopResumable(s) ==
  \/ s.pc = "unregister"
  \/ s.pc = "flush" /\ ~HasFlush(s.rec, s.flush)

\* _writeFramesToFile awaits the image save of line 512 or of line 544
FlushResumable(f) ==
  /\ f.pc \in {"wimg", "cimg"}
  /\ ~HasImg(f.rec, f.frames[f.i])

\* setAutoRecording awaits the startRecording of line 96
SetResumable(a) ==
  /\ a.pc = "start"
  /\ \A st \in BagToSet(starts) : st.awaiter # a.id

\* RecordingControls: checkRecordingState awaits the value of line 48,
\* updateAutoRecording the setAutoRecording of line 73, startRecording the
\* startRecording of line 115
EffectResumable(e) ==
  \/ e.pc = "enabled"
  \/ e.pc = "set" /\ \A a \in sets : a.id # e.id
  \/ e.pc = "start" /\ \A st \in BagToSet(starts) : st.awaiter # e.id

\* React runs the cleanups and effects of a render before it gives way
EffectPending == passive # <<>>

\* checkCameraStatus awaits the promise of line 149
ProbeResumable(p) == p.pc = "await" /\ p.promise # "pending"

MicrotaskPending ==
  \/ \E p \in probes : ProbeResumable(p)
  \/ \E s \in BagToSet(stops) : StopResumable(s)
  \/ \E f \in flushes : FlushResumable(f)
  \/ \E a \in sets : SetResumable(a)
  \/ \E e \in effects : EffectResumable(e)
  \/ EffectPending

\* --------------------------------------------- pieces shared by the handlers
\* _rotateRecordingFile up to its await of makeDirectoryAsync (lines 341-345)
RotateBegin(R) == [R EXCEPT !.currentFileStartTime = 1, !.currentFileSize = 0]

\* _rotateRecordingFile after makeDirectoryAsync (lines 372-388): the path is
\* named (every call names a new path) and pushed to allFiles.
RotateEnd(R, path) ==
  [R EXCEPT !.currentFilePath = path, !.allFiles = Append(@, path)]

\* _connectToCamera, lines 895-896 (the handlers are the ws_ actions below)
Connect(R, sock) == [R EXCEPT !.ws = sock]

\* Is the file older than fileRotationIntervalMs (line 480)?  A start time of
\* 0 (cleared by finalize) always is; otherwise time decides.
AgeOutcomes(R) ==
  IF R.currentFileStartTime = 0 THEN {TRUE}
  ELSE IF budget.ages > 0 THEN {TRUE, FALSE} ELSE {FALSE}

AfterAge(b, R, aged) ==
  IF aged /\ R.currentFilePath # 0 /\ R.currentFileStartTime # 0
    THEN [b EXCEPT !.ages = @ - 1] ELSE b

\* _saveFrameAsImage up to its first await (lines 745-782)
ImgBegin(R, r, frame) ==
  IF R.framesPathCreated
    THEN [rec |-> r, frame |-> frame, pc |-> "write", name |-> R.imageCount]
    ELSE [rec |-> r, frame |-> frame, pc |-> "dir", name |-> 0]

\* A flush that copies the buffer and leaves it as it is
FlushBeginRec_keeping(R, aged) ==
  IF R.currentFilePath = 0 \/ aged THEN RotateBegin(R) ELSE R

\* _writeFramesToFile up to its first await (lines 464-486): the buffer is
\* swapped, then the path is generated or rotated, or getInfoAsync is called.
FlushBeginRec(R, aged) ==
  IF R.currentFilePath = 0 \/ aged
    THEN RotateBegin([R EXCEPT !.frameBuffer = <<>>])
    ELSE [R EXCEPT !.frameBuffer = <<>>]

FlushBegin(R, r, aged) ==
  [rec |-> r, frames |-> R.frameBuffer, i |-> 0,
   pc |-> IF R.currentFilePath = 0 \/ aged THEN "rot" ELSE "info",
   fileUri |-> IF R.currentFilePath = 0 \/ aged THEN 0 ELSE R.currentFilePath,
   fileExists |-> FALSE]

\* ----------------------------------------------------------- startRecording
\* An activation of startRecording at its first await; awaiter is the
\* setAutoRecording activation that awaits it (0: the UI called).
NewStart(cam, awaiter) == [camera |-> cam, pc |-> "perm", rec |-> 0, awaiter |-> awaiter]

\* The UI calls startRecording(camera): lines 168-176, up to the await of
\* requestPermissionsAsync.
startRecording_call(cam) ==
  /\ ~MicrotaskPending
  /\ budget.calls > 0
  /\ starts' = starts (+) One(NewStart(cam, 0))
  /\ budget' = Spend("calls")
  /\ UNCHANGED <<policy, permission, disk, activeRecordings, rec, sockets, files,
                 assets, albums, stops, flushes, imgs, returned>>

\* startRecording without the test of line 177
PermissionGranted_ignored == TRUE

\* Line 177: status === 'granted'
PermissionGranted == permission = "granted"

\* startRecording without the test of line 187
AlreadyRecording_never(cam) == FALSE

\* Line 187: this.activeRecordings.has(camera.ip)
AlreadyRecording(cam) == activeRecordings[cam] # 0

\* startRecording refusing the second call
AlreadyRecordingReturn_false(cam) == Return("startRecording", cam, "false", 0)

\* Lines 188-189
AlreadyRecordingReturn(cam) == Return("startRecording", cam, "true", 0)

\* The permission answer arrives: lines 177-222, up to the await of
\* makeDirectoryAsync inside _rotateRecordingFile.
startRecording_perm(st) ==
  /\ ~MicrotaskPending
  /\ st.pc = "perm"
  /\ LET cam == st.camera IN
     IF ~PermissionGranted
       THEN /\ starts' = starts (-) One(st)
            /\ returned' = Return("startRecording", cam, "false", 0)
            /\ UNCHANGED <<activeRecordings, rec>>
     ELSE IF AlreadyRecording(cam)
       THEN /\ starts' = starts (-) One(st)
            /\ returned' = AlreadyRecordingReturn(cam)
            /\ UNCHANGED <<activeRecordings, rec>>
     ELSE /\ rec' = Append(rec, RotateBegin(NewRecording(cam)))
          /\ activeRecordings' = [activeRecordings EXCEPT ![cam] = Len(rec) + 1]
          /\ starts' = (starts (-) One(st))
                         (+) One([st EXCEPT !.pc = "mkdir", !.rec = Len(rec) + 1])
          /\ UNCHANGED returned
  /\ UNCHANGED <<policy, permission, disk, sockets, files, assets, albums, stops,
                 flushes, imgs, budget>>

\* makeDirectoryAsync answers: lines 366-388, then line 225 and
\* _connectToCamera (lines 877-896, 1048).  "fail" is the case in which the
\* fallback directory cannot be created either, so that the error reaches the
\* catch of startRecording (lines 226-229).
startRecording_mkdir(st) ==
  /\ ~MicrotaskPending
  /\ st.pc = "mkdir"
  /\ \E o \in IoOutcomes :
       /\ budget' = AfterIo(o)
       /\ starts' = starts (-) One(st)
       /\ IF o = "ok"
            THEN /\ files' = Append(files, NewFile(st.rec, "start"))
                 /\ sockets' = Append(sockets, NewSocket(st.rec, "start"))
                 /\ rec' = [rec EXCEPT ![st.rec] =
                              Connect(RotateEnd(@, Len(files) + 1), Len(sockets) + 1)]
                 /\ returned' = Return("startRecording", st.camera, "true", st.rec)
            ELSE /\ returned' = Return("startRecording", st.camera, "false", st.rec)
                 /\ UNCHANGED <<files, sockets, rec>>
  /\ UNCHANGED <<policy, permission, disk, activeRecordings, assets, albums, stops,
                 flushes, imgs>>

\* ------------------------------------------------- the socket of a recording
\* ws.onopen, lines 913-923
ws_onopen(c) ==
  /\ ~MicrotaskPending
  /\ sockets[c].readyState = "CONNECTING"
  /\ sockets' = [sockets EXCEPT ![c].readyState = "OPEN"]
  /\ rec' = [rec EXCEPT ![sockets[c].rec].wsConnected = TRUE]
  /\ UNCHANGED <<policy, permission, disk, activeRecordings, files, assets, albums,
                 starts, stops, flushes, imgs, returned, budget>>

\* A close handler that ends the recording
ws_onclose_deactivating(c) ==
  /\ ~MicrotaskPending
  /\ \/ sockets[c].readyState = "CLOSING" /\ budget' = budget
     \/ /\ sockets[c].readyState \in {"CONNECTING", "OPEN"}
        /\ budget.faults > 0
        /\ budget' = Spend("faults")
  /\ sockets' = [sockets EXCEPT ![c].readyState = "CLOSED", ![c].timer = FALSE]
  /\ rec' = [rec EXCEPT ![sockets[c].rec].wsConnected = FALSE,
                        ![sockets[c].rec].isActive = FALSE]
  /\ UNCHANGED <<policy, permission, disk, activeRecordings, files, assets, albums,
                 starts, stops, flushes, imgs, returned>>

\* ws.onclose, lines 925-940: the socket closes because close() was called on
\* it, or because the camera or the network dropped it.
\* A handler that arms the reconnect timer of a socket that has not closed
ws_onclose_stillopen(c) ==
  /\ ~MicrotaskPending
  /\ \/ sockets[c].readyState = "CLOSING" /\ budget' = budget
     \/ /\ sockets[c].readyState \in {"CONNECTING", "OPEN"}
        /\ budget.faults > 0
        /\ budget' = Spend("faults")
  /\ sockets' = [sockets EXCEPT ![c].timer = rec[sockets[c].rec].isActive]
  /\ rec' = [rec EXCEPT ![sockets[c].rec].wsConnected = FALSE]
  /\ UNCHANGED <<policy, permission, disk, activeRecordings, files, assets, albums,
                 starts, stops, flushes, imgs, returned>>

ws_onclose(c) ==
  /\ ~MicrotaskPending
  /\ \/ sockets[c].readyState = "CLOSING" /\ budget' = budget
     \/ /\ sockets[c].readyState \in {"CONNECTING", "OPEN"}
        /\ budget.faults > 0
        /\ budget' = Spend("faults")
  /\ sockets' = [sockets EXCEPT ![c].readyState = "CLOSED",
                                ![c].timer = rec[sockets[c].rec].isActive]
  /\ rec' = [rec EXCEPT ![sockets[c].rec].wsConnected = FALSE]
  /\ UNCHANGED <<policy, permission, disk, activeRecordings, files, assets, albums,
                 starts, stops, flushes, imgs, returned>>

\* A timer that reconnects whether or not the recording is active
reconnectTimer_always(c) ==
  /\ ~MicrotaskPending
  /\ sockets[c].timer
  /\ LET r == sockets[c].rec IN
     /\ sockets' = Append([sockets EXCEPT ![c].timer = FALSE],
                          NewSocket(r, "reconnect"))
     /\ rec' = [rec EXCEPT ![r] = Connect(@, Len(sockets) + 1)]
  /\ UNCHANGED <<policy, permission, disk, activeRecordings, files, assets, albums,
                 starts, stops, flushes, imgs, returned, budget>>

\* The 5 s timer set by onclose fires: lines 932-938
reconnectTimer(c) ==
  /\ ~MicrotaskPending
  /\ sockets[c].timer
  /\ LET r == sockets[c].rec IN
     IF rec[r].isActive
       THEN /\ sockets' = Append([sockets EXCEPT ![c].timer = FALSE],
                                 NewSocket(r, "reconnect"))
            /\ rec' = [rec EXCEPT ![r] = Connect(@, Len(sockets) + 1)]
       ELSE /\ sockets' = [sockets EXCEPT ![c].timer = FALSE]
            /\ UNCHANGED rec
  /\ UNCHANGED <<policy, permission, disk, activeRecordings, files, assets, albums,
                 starts, stops, flushes, imgs, returned, budget>>

\* ws.onmessage with a video message, lines 947-1033.  The payload of the
\* n-th message of a recording is n; data says what the validity check at
\* lines 974-986 finds.
ws_onmessage(c, data) ==
  /\ ~MicrotaskPending
  /\ sockets[c].readyState = "OPEN"
  /\ budget.frames > 0
  /\ LET r == sockets[c].rec
         n == rec[r].frameCount + 1
         R == [rec[r] EXCEPT !.frameCount = n]
         B == [R EXCEPT !.frameBuffer = Append(@, n)]
     IN
     CASE data = "missing" ->
            /\ rec' = [rec EXCEPT ![r] = R]
            /\ budget' = Spend("frames")
            /\ UNCHANGED <<flushes, imgs>>
       [] data = "invalid" ->
            /\ rec' = [rec EXCEPT ![r] = [R EXCEPT !.base64ErrorCount = @ + 1]]
            /\ budget' = Spend("frames")
            /\ UNCHANGED <<flushes, imgs>>
       [] data = "valid" /\ R.useImageFallback ->
            /\ rec' = [rec EXCEPT ![r] = R]
            /\ imgs' = IF n % 3 = 0 THEN imgs \cup {ImgBegin(R, r, n)} ELSE imgs
            /\ budget' = Spend("frames")
            /\ UNCHANGED flushes
       [] data = "valid" /\ ~R.useImageFallback ->
            IF Len(B.frameBuffer) >= maxBufferSize
              THEN \E aged \in AgeOutcomes(B) :
                     /\ rec' = [rec EXCEPT ![r] = FlushBeginRec(B, aged)]
                     /\ flushes' = flushes \cup {FlushBegin(B, r, aged)}
                     /\ budget' = AfterAge(Spend("frames"), B, aged)
                     /\ UNCHANGED imgs
              ELSE /\ rec' = [rec EXCEPT ![r] = B]
                   /\ budget' = Spend("frames")
                   /\ UNCHANGED <<flushes, imgs>>
  /\ UNCHANGED <<policy, permission, disk, activeRecordings, sockets, files, assets,
                 albums, starts, stops, returned>>

\* --------------------------------------------------------- _saveFrameAsImage
\* getInfoAsync and makeDirectoryAsync of the frames directory answer
\* (lines 771-782); a rejection goes to the catch at line 829.
_saveFrameAsImage_dir(m) ==
  /\ ~MicrotaskPending
  /\ m.pc = "dir"
  /\ \E o \in IoOutcomes :
       /\ budget' = AfterIo(o)
       /\ IF o = "ok"
            THEN /\ rec' = [rec EXCEPT ![m.rec].framesPathCreated = TRUE]
                 /\ imgs' = (imgs \ {m}) \cup
                              {[m EXCEPT !.pc = "write", !.name = rec[m.rec].imageCount]}
            ELSE /\ imgs' = imgs \ {m}
                 /\ UNCHANGED rec
  /\ UNCHANGED <<policy, permission, disk, activeRecordings, sockets, files, assets,
                 albums, starts, stops, flushes, returned>>

ImgWriteOutcomes == IF disk = "full" THEN {"full"} ELSE IoOutcomes

\* writeAsStringAsync of the image answers (lines 785-828)
_saveFrameAsImage_write(m) ==
  /\ ~MicrotaskPending
  /\ m.pc = "write"
  /\ \E o \in ImgWriteOutcomes :
       /\ budget' = IF o = "fail" THEN Spend("faults") ELSE budget
       /\ imgs' = imgs \ {m}
       /\ IF o = "ok"
            THEN rec' = [rec EXCEPT ![m.rec].imageNames = Append(@, m.name),
                                    ![m.rec].imageCount = @ + 1]
            ELSE UNCHANGED rec
  /\ UNCHANGED <<policy, permission, disk, activeRecordings, sockets, files, assets,
                 albums, starts, stops, flushes, returned>>

\* -------------------------------------------------------- _writeFramesToFile
\* The catch at lines 529-551, up to the first await of the image loop.
FlushCatchRec(R) ==
  [R EXCEPT !.base64ErrorCount = @ + 1,
            !.useImageFallback = @ \/ (R.base64ErrorCount + 1 > errorThreshold)]

FlushCatch(f) ==
  LET R == FlushCatchRec(rec[f.rec]) IN
  /\ rec' = [rec EXCEPT ![f.rec] = R]
  /\ IF R.base64ErrorCount > errorThreshold /\ enableImageFallback
       THEN /\ imgs' = imgs \cup {ImgBegin(R, f.rec, f.frames[1])}
            /\ flushes' = (flushes \ {f}) \cup {[f EXCEPT !.pc = "cimg", !.i = 1]}
       ELSE /\ flushes' = flushes \ {f}
            /\ UNCHANGED imgs

\* makeDirectoryAsync of a rotation answers (lines 474-486).  "fail": neither
\* directory can be created and _rotateRecordingFile throws.
_writeFramesToFile_rot(f) ==
  /\ ~MicrotaskPending
  /\ f.pc = "rot"
  /\ \E o \in IoOutcomes :
       /\ budget' = AfterIo(o)
       /\ IF o = "ok"
            THEN /\ files' = Append(files, NewFile(f.rec, "flush"))
                 /\ rec' = [rec EXCEPT ![f.rec] = RotateEnd(@, Len(files) + 1)]
                 /\ flushes' = (flushes \ {f}) \cup
                                 {[f EXCEPT !.pc = "info", !.fileUri = Len(files) + 1]}
                 /\ UNCHANGED imgs
            ELSE /\ FlushCatch(f)
                 /\ UNCHANGED files
  /\ UNCHANGED <<policy, permission, disk, activeRecordings, sockets, assets, albums,
                 starts, stops, returned>>

\* getInfoAsync answers (lines 486-490)
_writeFramesToFile_info(f) ==
  /\ ~MicrotaskPending
  /\ f.pc = "info"
  /\ \E o \in IoOutcomes :
       /\ budget' = AfterIo(o)
       /\ IF o = "ok"
            THEN /\ flushes' = (flushes \ {f}) \cup
                                 {[f EXCEPT !.pc = "write", !.i = 1,
                                            !.fileExists = files[f.fileUri].exists]}
                 /\ UNCHANGED <<rec, imgs>>
            ELSE FlushCatch(f)
  /\ UNCHANGED <<policy, permission, disk, activeRecordings, sockets, files, assets,
                 albums, starts, stops, returned>>

\* A flush whose success ends the fallback once the counter is back at the
\* threshold
FlushFinishRec_revert(R) ==
  [R EXCEPT !.successfulWrites = @ + 1,
            !.base64ErrorCount = IF @ > 0 THEN @ - 1 ELSE @,
            !.useImageFallback = @ /\ R.base64ErrorCount - 1 > errorThreshold]

\* Lines 520-527, after the loop
FlushFinishRec(R) ==
  [R EXCEPT !.successfulWrites = @ + 1,
            !.base64ErrorCount = IF @ > 0 THEN @ - 1 ELSE @]

\* The loop goes on to frame i + 1 or ends (lines 490, 520-527); R is the
\* recording as the step has left it so far.
FlushNext(f, R) ==
  IF f.i < Len(f.frames)
    THEN /\ flushes' = (flushes \ {f}) \cup {[f EXCEPT !.pc = "write", !.i = @ + 1]}
         /\ rec' = [rec EXCEPT ![f.rec] = R]
    ELSE /\ flushes' = flushes \ {f}
         /\ rec' = [rec EXCEPT ![f.rec] = FlushFinishRec(R)]

\* What writeAsStringAsync can do: write; reject; or, when it was asked to
\* create the file (no append), reject after having created it empty.
WriteOutcomes(f) ==
  IF disk = "full" THEN {"full"}
  ELSE IF budget.faults = 0 THEN {"ok"}
  ELSE IF f.fileExists THEN {"ok", "fail"}
  ELSE {"ok", "fail", "truncated"}

\* writeAsStringAsync of frame i answers (lines 490-518)
_writeFramesToFile_write(f) ==
  /\ ~MicrotaskPending
  /\ f.pc = "write"
  /\ \E o \in WriteOutcomes(f) :
       LET u == f.fileUri
           frame == f.frames[f.i]
           R == [rec[f.rec] EXCEPT !.failStreak = IF o = "ok" THEN 0 ELSE @ + 1]
       IN
       /\ budget' = IF o \in {"fail", "truncated"} THEN Spend("faults") ELSE budget
       /\ files' = CASE o = "ok" /\ f.fileExists ->
                          [files EXCEPT ![u].exists = TRUE, ![u].content = Append(@, frame)]
                     [] o = "ok" /\ ~f.fileExists ->
                          [files EXCEPT ![u].exists = TRUE, ![u].content = <<frame>>]
                     [] o = "truncated" ->
                          [files EXCEPT ![u].exists = TRUE, ![u].content = <<>>]
                     [] OTHER -> files
       /\ IF o = "ok"
            THEN /\ FlushNext(f, R)
                 /\ UNCHANGED imgs
            ELSE IF enableImageFallback
              THEN /\ imgs' = imgs \cup {ImgBegin(R, f.rec, frame)}
                   /\ flushes' = (flushes \ {f}) \cup {[f EXCEPT !.pc = "wimg"]}
                   /\ rec' = [rec EXCEPT ![f.rec] = R]
              ELSE /\ FlushNext(f, R)
                   /\ UNCHANGED imgs
  /\ UNCHANGED <<policy, permission, disk, activeRecordings, sockets, assets, albums,
                 starts, stops, returned>>

\* The image save of a frame whose write failed has returned (lines 512-517)
_writeFramesToFile_wimg(f) ==
  /\ f.pc = "wimg"
  /\ FlushResumable(f)
  /\ FlushNext(f, rec[f.rec])
  /\ UNCHANGED <<policy, permission, disk, activeRecordings, sockets, files, assets,
                 albums, starts, stops, imgs, returned, budget>>

\* An image save of the catch loop has returned (lines 542-548): every third
\* frame of the batch is saved.
_writeFramesToFile_cimg(f) ==
  /\ f.pc = "cimg"
  /\ FlushResumable(f)
  /\ IF f.i + 3 <= Len(f.frames)
       THEN /\ imgs' = imgs \cup {ImgBegin(rec[f.rec], f.rec, f.frames[f.i + 3])}
            /\ flushes' = (flushes \ {f}) \cup {[f EXCEPT !.i = @ + 3]}
       ELSE /\ flushes' = flushes \ {f}
            /\ UNCHANGED imgs
  /\ UNCHANGED <<policy, permission, disk, activeRecordings, rec, sockets, files,
                 assets, albums, starts, stops, returned, budget>>

\* ------------------------------------------------------------ stopRecording
\* _finalizeRecordingFile up to its first await (lines 561-570): without a
\* current path it returns at once, otherwise it asks getInfoAsync about it.
FinalizePc(R) == IF R.currentFilePath = 0 THEN "unregister" ELSE "finfo"

\* Lines 613-617
ClearFile(R) ==
  [R EXCEPT !.currentFilePath = 0, !.currentFileStartTime = 0, !.currentFileSize = 0]

\* ws.close() of line 256 either throws, and line 257 is skipped, or starts
\* the closing handshake.
CloseOutcomes(R) ==
  IF R.ws # 0 /\ budget.faults > 0 THEN {"ok", "fail"} ELSE {"ok"}

\* stopRecording of a camera that has a recording: lines 248-269, up to the
\* first await.  b is the budget before the step's faults are charged.
StopBegin(cam, b) ==
  LET r == activeRecordings[cam] IN
  \E o \in CloseOutcomes(rec[r]) :
  \E aged \in (IF Len(rec[r].frameBuffer) > 0 /\ rec[r].currentFilePath # 0
                 THEN AgeOutcomes(rec[r]) ELSE {FALSE}) :
    LET w == rec[r].ws
        R1 == [rec[r] EXCEPT !.isActive = FALSE,
                             !.ws = IF o = "ok" THEN 0 ELSE @]
    IN
    /\ sockets' = IF w # 0 /\ o = "ok"
                       /\ sockets[w].readyState \in {"CONNECTING", "OPEN"}
                    THEN [sockets EXCEPT ![w].readyState = "CLOSING"]
                    ELSE sockets
    /\ budget' = AfterAge([b EXCEPT !.faults = IF o = "ok" THEN @ ELSE @ - 1],
                          R1, aged)
    /\ IF Len(R1.frameBuffer) > 0
         THEN /\ rec' = [rec EXCEPT ![r] = FlushBeginRec(R1, aged)]
              /\ flushes' = flushes \cup {FlushBegin(R1, r, aged)}
              /\ stops' = stops (+) One([camera |-> cam, rec |-> r,
                                         pc |-> "flush", path |-> 0,
                                         flush |-> R1.frameBuffer[1]])
         ELSE /\ rec' = [rec EXCEPT ![r] = R1]
              /\ stops' = stops (+) One([camera |-> cam, rec |-> r,
                                         pc |-> FinalizePc(R1),
                                         path |-> R1.currentFilePath,
                                         flush |-> 0])
              /\ UNCHANGED flushes

\* The UI calls stopRecording(camera): lines 237-269, up to the first await.
stopRecording_call(cam) ==
  /\ ~MicrotaskPending
  /\ budget.calls > 0
  /\ IF activeRecordings[cam] = 0
       THEN /\ returned' = Return("stopRecording", cam, "false", 0)
            /\ budget' = Spend("calls")
            /\ UNCHANGED <<rec, sockets, flushes, stops>>
       ELSE /\ StopBegin(cam, Spend("calls"))
            /\ UNCHANGED returned
  /\ UNCHANGED <<policy, permission, disk, activeRecordings, files, assets,
                 albums, starts, imgs>>

StopTo(s, pc, path) ==
  (stops (-) One(s)) (+) One([s EXCEPT !.pc = pc, !.path = path, !.flush = 0])

\* The flush awaited at line 265 has returned; line 269 calls finalize.
stopRecording_flushed(s) ==
  /\ s.pc = "flush"
  /\ StopResumable(s)
  /\ stops' = StopTo(s, FinalizePc(rec[s.rec]), rec[s.rec].currentFilePath)
  /\ UNCHANGED <<policy, permission, disk, activeRecordings, rec, sockets, files,
                 assets, albums, starts, flushes, imgs, returned, budget>>

\* getInfoAsync of finalize answers (lines 570-580, 608-620)
stopRecording_finfo(s) ==
  /\ ~MicrotaskPending
  /\ s.pc = "finfo"
  /\ \E o \in IoOutcomes :
       LET R == rec[s.rec]
           info == files[s.path]
       IN
       /\ budget' = AfterIo(o)
       /\ IF o = "fail" \/ ~info.exists \/ Len(info.content) = 0
            THEN /\ stops' = StopTo(s, "unregister", 0)
                 /\ rec' = [rec EXCEPT ![s.rec].finalizeFailed = @ \/ o = "fail"]
          ELSE IF R.successfulWrites > 0 /\ ~R.useImageFallback
            THEN /\ stops' = StopTo(s, "asset", R.currentFilePath)
                 /\ UNCHANGED rec
          ELSE /\ stops' = StopTo(s, "unregister", 0)
               /\ rec' = [rec EXCEPT ![s.rec] = ClearFile(@)]
  /\ UNCHANGED <<policy, permission, disk, activeRecordings, sockets, files, assets,
                 albums, starts, flushes, imgs, returned>>

\* createAssetAsync answers (lines 580, 605-617); it rejects a path that is
\* null or names no file.
AssetOutcomes(path) ==
  IF path = 0 \/ ~files[path].exists THEN {"reject"} ELSE IoOutcomes

\* _finalizeRecordingFile without the try of lines 578-607: a rejection of
\* createAssetAsync reaches the catch of stopRecording (lines 279-282), which
\* returns false.
stopRecording_asset_uncaught(s) ==
  /\ ~MicrotaskPending
  /\ s.pc = "asset"
  /\ \E o \in AssetOutcomes(s.path) :
       /\ budget' = IF o = "fail" THEN Spend("faults") ELSE budget
       /\ IF o = "ok"
            THEN /\ assets' = assets \cup {s.path}
                 /\ stops' = StopTo(s, "album", s.path)
                 /\ UNCHANGED <<rec, returned>>
            ELSE /\ stops' = stops (-) One(s)
                 /\ rec' = [rec EXCEPT ![s.rec].finalizeFailed = TRUE]
                 /\ returned' = Return("stopRecording", s.camera, "false", s.rec)
                 /\ UNCHANGED assets
  /\ UNCHANGED <<policy, permission, disk, activeRecordings, sockets, files,
                 albums, starts, flushes, imgs>>

stopRecording_asset(s) ==
  /\ ~MicrotaskPending
  /\ s.pc = "asset"
  /\ \E o \in AssetOutcomes(s.path) :
       /\ budget' = IF o = "fail" THEN Spend("faults") ELSE budget
       /\ IF o = "ok"
            THEN /\ assets' = assets \cup {s.path}
                 /\ stops' = StopTo(s, "album", s.path)
                 /\ UNCHANGED rec
            ELSE /\ stops' = StopTo(s, "unregister", 0)
                 /\ rec' = [rec EXCEPT ![s.rec] =
                              [ClearFile(@) EXCEPT !.finalizeFailed = TRUE]]
                 /\ UNCHANGED assets
  /\ UNCHANGED <<policy, permission, disk, activeRecordings, sockets, files, albums,
                 starts, flushes, imgs, returned>>

\* getAlbumsAsync and createAlbumAsync or addAssetsToAlbumAsync answer
\* (lines 595-617)
stopRecording_album(s) ==
  /\ ~MicrotaskPending
  /\ s.pc = "album"
  /\ \E o \in IoOutcomes :
       /\ budget' = AfterIo(o)
       /\ albums' = IF o = "ok"
                      THEN [albums EXCEPT ![s.camera] = @ \cup {s.path}]
                      ELSE albums
       /\ rec' = [rec EXCEPT ![s.rec] =
                    [ClearFile(@) EXCEPT !.finalizeFailed = @ \/ o = "fail"]]
  /\ stops' = StopTo(s, "unregister", 0)
  /\ UNCHANGED <<policy, permission, disk, activeRecordings, sockets, files, assets,
                 starts, flushes, imgs, returned>>

\* finalize has returned: lines 271-278 delete the registry entry of the camera
Unregister(cam) ==
  /\ activeRecordings' = [activeRecordings EXCEPT ![cam] = 0]
  /\ rec' = IF activeRecordings[cam] = 0 THEN rec
            ELSE [rec EXCEPT ![activeRecordings[cam]].registered = FALSE]

stopRecording_unregister(s) ==
  /\ s.pc = "unregister"
  /\ Unregister(s.camera)
  /\ stops' = stops (-) One(s)
  /\ returned' = Return("stopRecording", s.camera, "true", s.rec)
  /\ UNCHANGED <<policy, permission, disk, sockets, files, assets, albums, starts,
                 flushes, imgs, budget>>

\* ---------------------------------------------------- auto-recording policy
\* What AsyncStorage holds under the key: nothing, or the text of a list
NoItem == [stored |-> FALSE, json |-> <<>>]

\* JSON.stringify of the list (line 68) and JSON.parse of the item (line 54).
\* A camera is known by its ip, which is all the service compares.
JSONstringify(list) == [stored |-> TRUE, json |-> list]

JSONparse(item) == item.json

\* A test that finds no camera enabled
isAutoRecordingEnabled_never(cam) == FALSE

\* isAutoRecordingEnabled(camera), lines 79-81
isAutoRecordingEnabled(cam) ==
  \E i \in Ids(autoRecordingCameras) : autoRecordingCameras[i] = cam

\* Line 102: the list without the camera
WithoutCamera(list, cam) == SelectSeq(list, LAMBDA c : c # cam)

\* setAutoRecording at line 110: _saveAutoRecordingCameras has stringified the
\* list and awaits setItem.
Saving(a, list) == [a EXCEPT !.pc = "save", !.value = JSONstringify(list)]

\* setAutoRecording(camera, enable), camera.status being status: lines 88-110
\* up to the first await, which is inside startRecording (line 96) or inside
\* _saveAutoRecordingCameras (line 110).  stopRecording at line 106 is not
\* awaited: it runs up to its own first await.  id names the activation and
\* b is the budget before the step's faults are charged.
setAutoRecording_enter(id, cam, enable, status, b) ==
  /\ LET a == [id |-> id, camera |-> cam, enable |-> enable,
               status |-> status, pc |-> "save", value |-> NoItem]
     IN
     IF enable
       THEN /\ IF ~isAutoRecordingEnabled(cam)
                 THEN /\ autoRecordingCameras' = Append(autoRecordingCameras, cam)
                      /\ IF status = "Online"
                           THEN /\ starts' = starts (+) One(NewStart(cam, a.id))
                                /\ sets' = sets \cup {[a EXCEPT !.pc = "start"]}
                           ELSE /\ sets' = sets \cup
                                     {Saving(a, Append(autoRecordingCameras, cam))}
                                /\ UNCHANGED starts
                 ELSE /\ sets' = sets \cup {Saving(a, autoRecordingCameras)}
                      /\ UNCHANGED <<autoRecordingCameras, starts>>
            /\ budget' = b
            /\ UNCHANGED <<rec, sockets, flushes, stops>>
       ELSE /\ autoRecordingCameras' = WithoutCamera(autoRecordingCameras, cam)
            /\ sets' = sets \cup
                 {Saving(a, WithoutCamera(autoRecordingCameras, cam))}
            /\ IF isRecording(cam)
                 THEN StopBegin(cam, b)
                 ELSE /\ budget' = b
                      /\ UNCHANGED <<rec, sockets, flushes, stops>>
            /\ UNCHANGED starts
  /\ UNCHANGED <<storage, loads, permission, disk, activeRecordings, files,
                 assets, albums, imgs, returned>>

\* The UI calls setAutoRecording(camera, enable)
setAutoRecording_call(cam, enable, status) ==
  /\ ~MicrotaskPending
  /\ budget.calls > 0
  /\ setAutoRecording_enter(budget.calls, cam, enable, status, Spend("calls"))

\* The startRecording awaited at line 96 has returned: line 110
setAutoRecording_started(a) ==
  /\ a.pc = "start"
  /\ SetResumable(a)
  /\ sets' = (sets \ {a}) \cup {Saving(a, autoRecordingCameras)}
  /\ UNCHANGED <<autoRecordingCameras, storage, loads, permission, disk,
                 activeRecordings, rec, sockets, files, assets, albums, starts,
                 stops, flushes, imgs, returned, budget>>

\* setItem answers (lines 66-72); setAutoRecording returns.
setAutoRecording_saved(a) ==
  /\ ~MicrotaskPending
  /\ a.pc = "save"
  /\ \E o \in IoOutcomes :
       /\ budget' = AfterIo(o)
       /\ storage' = IF o = "ok" THEN a.value ELSE storage
  /\ sets' = sets \ {a}
  /\ returned' = [Return("setAutoRecording", a.camera, "done", 0) EXCEPT
                    !.args = <<a.enable, a.status>>]
  /\ UNCHANGED <<autoRecordingCameras, loads, permission, disk,
                 activeRecordings, rec, sockets, files, assets, albums, starts,
                 stops, flushes, imgs>>

\* The UI calls getAutoRecordingCameras(): lines 117-119, up to the await of
\* getItem inside _loadAutoRecordingCameras.
getAutoRecordingCameras_call ==
  /\ ~MicrotaskPending
  /\ budget.calls > 0
  /\ loads' = loads (+) One("getAutoRecordingCameras")
  /\ budget' = Spend("calls")
  /\ UNCHANGED <<autoRecordingCameras, storage, sets, permission, disk,
                 activeRecordings, rec, sockets, files, assets, albums, starts,
                 stops, flushes, imgs, returned>>

\* getItem answers a load of the constructor (line 31) or of
\* getAutoRecordingCameras: lines 52-59, 120.
_loadAutoRecordingCameras_answer(by) ==
  /\ ~MicrotaskPending
  /\ BagIn(by, loads)
  /\ loads' = loads (-) One(by)
  /\ \E o \in IoOutcomes :
       /\ budget' = AfterIo(o)
       /\ autoRecordingCameras' = IF o = "ok" /\ storage.stored
                                    THEN JSONparse(storage)
                                    ELSE autoRecordingCameras
  /\ returned' = IF by = "getAutoRecordingCameras"
                   THEN [Return(by, "none", "done", 0) EXCEPT
                           !.args = autoRecordingCameras']
                   ELSE returned
  /\ UNCHANGED <<storage, sets, permission, disk, activeRecordings, rec,
                 sockets, files, assets, albums, starts, stops, flushes, imgs>>

\* ------------------------------------------------------------------ reads
\* The UI calls isRecording(camera): lines 290-297
isRecording_call(cam) ==
  /\ ~MicrotaskPending
  /\ budget.calls > 0
  /\ budget' = Spend("calls")
  /\ returned' = Return("isRecording", cam,
                        IF isRecording(cam) THEN "true" ELSE "false", 0)
  /\ UNCHANGED <<policy, permission, disk, activeRecordings, rec, sockets, files,
                 assets, albums, starts, stops, flushes, imgs>>

\* The object that getRecordingStats builds from a recording (lines 318-330):
\* the fields that the model keeps
Stats(R) ==
  <<R.frameCount, R.currentFileSize, R.totalSize, R.useImageFallback,
    R.base64ErrorCount>>

\* getRecordingStats that counts the frames it is asked about
getRecordingStats_counting(cam) ==
  /\ ~MicrotaskPending
  /\ budget.calls > 0
  /\ budget' = Spend("calls")
  /\ LET r == activeRecordings[cam] IN
     IF r = 0
       THEN /\ returned' = Return("getRecordingStats", cam, "null", 0)
            /\ UNCHANGED rec
       ELSE /\ returned' = [Return("getRecordingStats", cam, "stats", r) EXCEPT
                              !.args = Stats(rec[r])]
            /\ rec' = [rec EXCEPT ![r].frameCount = @ + 1]
  /\ UNCHANGED <<policy, permission, disk, activeRecordings, sockets, files,
                 assets, albums, starts, stops, flushes, imgs>>

\* The UI calls getRecordingStats(camera): lines 304-331
getRecordingStats_call(cam) ==
  /\ ~MicrotaskPending
  /\ budget.calls > 0
  /\ budget' = Spend("calls")
  /\ LET r == activeRecordings[cam] IN
     returned' = IF r = 0
                   THEN Return("getRecordingStats", cam, "null", 0)
                   ELSE [Return("getRecordingStats", cam, "stats", r) EXCEPT
                           !.args = Stats(rec[r])]
  /\ UNCHANGED <<policy, permission, disk, activeRecordings, rec, sockets, files,
                 assets, albums, starts, stops, flushes, imgs>>

\* ------------------------------------------------------ RecordingControls
\* The component of src/unnamed/part_000, rendered for one camera.  view holds
\* the values of the last render: camera.status, the isAutoRecordingEnabled
\* prop (state of CameraView, LoginForm.js line 568) and the isRecording and
\* persistentAutoRecording states.  An effect or async function sees the
\* values of the render that created it (v), whatever view has become.
shownCamera == "cam1"

\* Everything of the service but the policy and the budget
service == <<permission, disk, activeRecordings, rec, sockets, files, assets,
             albums, starts, stops, flushes, imgs, returned>>

EffectIds(es) == {e.id : e \in es}

\* A name for a new activation: the first one that no activation of es has
Fresh(es) ==
  -(CHOOSE k \in 1..MaxEffects :
      /\ -k \notin EffectIds(es)
      /\ \A j \in 1..(k - 1) : -j \in EffectIds(es))

\* changed is a history field: the dependency whose change queued the effect.
Effect(id, fn, pc, v, changed) ==
  [id |-> id, fn |-> fn, pc |-> pc, v |-> v, changed |-> changed,
   isAutoEnabled |-> FALSE]

\* The render new is committed after the render old: the cleanups and effects
\* whose dependencies differ are queued, cleanups first (lines 65, 97, 111).
\* The cleanup of lines 101-110 is queued only when the test of line 107
\* passes for the values of old; the timers are left out.
Commit(old, new, cameraChanged) ==
  (IF /\ (old.isRecording # new.isRecording
           \/ old.isAutoRecordingEnabled # new.isAutoRecordingEnabled)
      /\ old.isRecording /\ ~old.isAutoRecordingEnabled
     THEN <<Effect(0, "cleanup", "run", old, "none")>> ELSE <<>>)
  \o (IF cameraChanged
        THEN <<Effect(0, "checkRecordingState", "run", new, "camera")>>
        ELSE <<>>)
  \o (IF old.status # new.status
        THEN <<Effect(0, "updateAutoRecording", "run", new, "status")>>
      ELSE IF old.isAutoRecordingEnabled # new.isAutoRecordingEnabled
        THEN <<Effect(0, "updateAutoRecording", "run", new, "auto")>>
      ELSE <<>>)

\* The socket of the live view opens, closes or fails, and the camera object
\* is replaced by one with status s (App.js lines 690-716).
camera_status(s) ==
  /\ ~MicrotaskPending
  /\ budget.changes > 0
  /\ budget' = Spend("changes")
  /\ view' = [view EXCEPT !.status = s]
  /\ passive' = Commit(view, view', TRUE)
  /\ UNCHANGED <<effects, policy, service>>

\* The Auto button is pressed: handleToggleAutoRecording, LoginForm.js lines
\* 665-667
onToggleAutoRecording ==
  /\ ~MicrotaskPending
  /\ budget.changes > 0
  /\ budget' = Spend("changes")
  /\ view' = [view EXCEPT !.isAutoRecordingEnabled = ~@]
  /\ passive' = Commit(view, view', FALSE)
  /\ UNCHANGED <<effects, policy, service>>

\* stopRecording(camera) of the service called and not awaited: lines 237-269,
\* up to its first await
StopUnawaited(cam) ==
  /\ IF activeRecordings[cam] = 0
       THEN /\ returned' = Return("stopRecording", cam, "false", 0)
            /\ UNCHANGED <<budget, rec, sockets, flushes, stops>>
       ELSE /\ StopBegin(cam, budget)
            /\ UNCHANGED returned
  /\ UNCHANGED <<policy, permission, disk, activeRecordings, files, assets,
                 albums, starts, imgs>>

\* The cleanup of lines 101-110 runs: line 108
cleanup_run ==
  /\ passive # <<>>
  /\ Head(passive).fn = "cleanup"
  /\ passive' = Tail(passive)
  /\ StopUnawaited(shownCamera)
  /\ UNCHANGED <<view, effects>>

\* checkRecordingState, lines 18-48, up to the await
checkRecordingState_run ==
  /\ passive # <<>>
  /\ Head(passive).fn = "checkRecordingState"
  /\ view' = [view EXCEPT !.isRecording = activeRecordings[shownCamera] # 0]
  /\ passive' = Tail(passive) \o Commit(view, view', FALSE)
  /\ effects' = effects \cup
       {[Head(passive) EXCEPT !.id = Fresh(effects), !.pc = "enabled",
                              !.isAutoEnabled = isAutoRecordingEnabled(shownCamera)]}
  /\ UNCHANGED <<budget, policy, service>>

\* checkRecordingState, lines 48-54
checkRecordingState_resume(e) ==
  /\ ~EffectPending
  /\ e.pc = "enabled"
  /\ view' = [view EXCEPT
                !.persistentAutoRecording = e.isAutoEnabled,
                !.isAutoRecordingEnabled =
                   IF e.isAutoEnabled # e.v.isAutoRecordingEnabled
                     THEN ~e.v.isAutoRecordingEnabled ELSE @]
  /\ passive' = Commit(view, view', FALSE)
  /\ effects' = effects \ {e}
  /\ UNCHANGED <<budget, policy, service>>

\* stopRecording of the component, lines 154-176, called with the values v;
\* nv is the view and q and es the activations that the caller leaves.
stopRecording_local(v, nv, q, es) ==
  IF v.isAutoRecordingEnabled
    THEN /\ view' = nv
         /\ passive' = q
         /\ effects' = es
         /\ UNCHANGED <<budget, policy, service>>
    ELSE /\ StopUnawaited(shownCamera)
         /\ view' = [nv EXCEPT !.isRecording = FALSE]
         /\ passive' = q \o Commit(nv, view', FALSE)
         /\ effects' = es

\* updateAutoRecording, lines 88-93, with startRecording of the component up
\* to its await (lines 113-115)
Reconcile(v, nv, q, es) ==
  IF v.isAutoRecordingEnabled /\ v.status = "Online" /\ ~v.isRecording
    THEN /\ starts' = starts (+) One(NewStart(shownCamera, Fresh(es)))
         /\ effects' = es \cup {Effect(Fresh(es), "startRecording", "start", v, "none")}
         /\ view' = nv
         /\ passive' = q
         /\ UNCHANGED <<budget, policy, permission, disk, activeRecordings, rec,
                        sockets, files, assets, albums, stops, flushes, imgs,
                        returned>>
  ELSE IF v.isAutoRecordingEnabled /\ v.status = "Offline" /\ v.isRecording
    THEN stopRecording_local(v, nv, q, es)
  ELSE /\ view' = nv
       /\ passive' = q
       /\ effects' = es
       /\ UNCHANGED <<budget, policy, service>>

\* updateAutoRecording, lines 69-73 up to the await, or lines 69-71 and 88-93
updateAutoRecording_run ==
  /\ passive # <<>>
  /\ Head(passive).fn = "updateAutoRecording"
  /\ LET e == Head(passive) IN
     IF e.v.persistentAutoRecording # e.v.isAutoRecordingEnabled
       THEN /\ setAutoRecording_enter(Fresh(effects), shownCamera,
                                      e.v.isAutoRecordingEnabled, e.v.status, budget)
            /\ effects' = effects \cup
                 {[e EXCEPT !.id = Fresh(effects), !.pc = "set"]}
            /\ passive' = Tail(passive)
            /\ UNCHANGED view
       ELSE Reconcile(e.v, view, Tail(passive), effects)

\* setAutoRecording has returned: lines 74-93
updateAutoRecording_resume(e) ==
  /\ ~EffectPending
  /\ e.pc = "set"
  /\ EffectResumable(e)
  /\ Reconcile(e.v,
               [view EXCEPT !.persistentAutoRecording = e.v.isAutoRecordingEnabled],
               passive, effects \ {e})

\* startRecording of the component after its await: lines 117-147
startRecording_resume(e) ==
  /\ ~EffectPending
  /\ e.pc = "start"
  /\ EffectResumable(e)
  /\ view' = IF activeRecordings[shownCamera] # 0
               THEN [view EXCEPT !.isRecording = TRUE] ELSE view
  /\ passive' = Commit(view, view', FALSE)
  /\ effects' = effects \ {e}
  /\ UNCHANGED <<budget, policy, service>>

\* ------------------------------------------------------------ frame pacer
\* App.js lines 645-741.  processNextFrame is a callback of the render that
\* made it: it reads the isProcessingFrame and frameRate of that render.

\* Line 651, and the timer of line 675 being due: t milliseconds are at least
\* 1000 / rate
IntervalPassed(t, rate) == t * rate >= 1000

\* Lines 738-740
Overflow_six(q) == IF Len(q) > 10 THEN SubSeq(q, Len(q) - 5, Len(q)) ELSE q

Overflow(q) == IF Len(q) > 10 THEN SubSeq(q, Len(q) - 4, Len(q)) ELSE q

\* A pacer that always takes the oldest frame
FrameToProcess_fifo(q) == q[1]

\* Lines 655-660: the frame taken and the queue left
FrameToProcess(q) == IF Len(q) > 3 THEN q[Len(q)] ELSE q[1]

\* A pacer that keeps the older frames when it takes the newest
QueueLeft_keeping(q) == IF Len(q) > 3 THEN SubSeq(q, 1, Len(q) - 1) ELSE Tail(q)

QueueLeft(q) == IF Len(q) > 3 THEN <<>> ELSE Tail(q)

\* processNextFrame of a render with the values flag and rate, run on the
\* pacer p: lines 646-675
processNextFrame(p, flag, rate) ==
  LET go == /\ Len(p.frameQueue) > 0
            /\ ~flag
            /\ IntervalPassed(p.now - p.lastFrameTime, rate)
      timer == [armed |-> TRUE, at |-> p.now, isProcessingFrame |-> flag,
                frameRate |-> rate]
  IN
  IF go
    THEN [p EXCEPT !.state = TRUE,
                   !.frameQueue = QueueLeft(@),
                   !.forwards = @ \cup {[frame |-> FrameToProcess(p.frameQueue),
                                         now |-> p.now]},
                   !.started = Append(@, [frame |-> FrameToProcess(p.frameQueue),
                                          now |-> p.now]),
                   !.frameProcessorTimeout = timer]
    ELSE [p EXCEPT !.frameProcessorTimeout = timer]

\* A video message arrives: lines 735-741
onMessage_video ==
  /\ budget.frames > 0
  /\ budget' = Spend("frames")
  /\ pacer' = [pacer EXCEPT !.pushed = @ + 1,
                            !.frameQueue = Overflow(Append(@, pacer.pushed + 1))]
  /\ UNCHANGED <<controls, probes, policy, service>>

\* The timer of line 675 fires and runs the processNextFrame that set it
frameProcessorTimeout_fires ==
  /\ pacer.frameProcessorTimeout.armed
  /\ IntervalPassed(pacer.now - pacer.frameProcessorTimeout.at,
                    pacer.frameProcessorTimeout.frameRate)
  /\ pacer' = processNextFrame(pacer, pacer.frameProcessorTimeout.isProcessingFrame,
                               pacer.frameProcessorTimeout.frameRate)
  /\ UNCHANGED <<budget, controls, probes, policy, service>>

\* The place of a frame taken among the frames taken
TakenAt(f) == CHOOSE i \in Ids(pacer.started) : pacer.started[i] = f

\* The callback given to runAfterInteractions runs: lines 662-671.  The
\* InteractionManager runs the callbacks in the order in which they were
\* given to it.
runAfterInteractions_callback(f) ==
  /\ f \in pacer.forwards
  /\ \A g \in pacer.forwards : TakenAt(f) <= TakenAt(g)
  /\ pacer' = [pacer EXCEPT !.forwards = @ \ {f},
                            !.posted = Append(@, [frame |-> f.frame, at |-> pacer.now]),
                            !.lastFrameTime = f.now,
                            !.state = FALSE]
  /\ UNCHANGED <<budget, controls, probes, policy, service>>

\* React renders App with the isProcessingFrame that was set; processNextFrame
\* is made anew (line 676) and the effect of lines 678-685 runs: the cleanup
\* clears the timer and the new processNextFrame is called.
App_render ==
  /\ pacer.state # pacer.isProcessingFrame \/ pacer.rate # pacer.frameRate
  /\ pacer' = processNextFrame([pacer EXCEPT !.isProcessingFrame = pacer.state,
                                             !.frameRate = pacer.rate],
                               pacer.state, pacer.rate)
  /\ UNCHANGED <<budget, controls, probes, policy, service>>

\* What a config message may carry as width and as height (0: none), and by
\* how much the user may ask to change the rate
Widths == {0, 640, 1000, 1920}

Heights == {0, 500, 1000, 1080}

Deltas == {-10, -5, 5, 10}

\* A config message arrives: lines 721-734.  pacer.rate is the frameRate
\* that was set, pacer.frameRate the one of the last render.
onMessage_config(width, height) ==
  /\ budget.changes > 0
  /\ budget' = Spend("changes")
  /\ pacer' = IF width # 0 /\ height # 0
                THEN [pacer EXCEPT !.rate = IF width * height > 1000000 THEN 15
                                            ELSE IF width * height > 500000 THEN 20
                                            ELSE 30]
                ELSE pacer
  /\ UNCHANGED <<controls, probes, policy, service>>

\* A handler that sets whatever rate results
handleFPSChange_unchecked(delta) ==
  /\ budget.changes > 0
  /\ budget' = Spend("changes")
  /\ pacer' = [pacer EXCEPT !.rate = pacer.frameRate + delta]
  /\ UNCHANGED <<controls, probes, policy, service>>

\* handleFPSChange(delta) of the CameraView that App rendered with frameRate:
\* LoginForm.js lines 649-654
handleFPSChange(delta) ==
  /\ budget.changes > 0
  /\ budget' = Spend("changes")
  /\ LET newFrameRate == pacer.frameRate + delta IN
     pacer' = IF newFrameRate >= 5 /\ newFrameRate <= 30
                THEN [pacer EXCEPT !.rate = newFrameRate]
                ELSE pacer
  /\ UNCHANGED <<controls, probes, policy, service>>

\* Time passes
clock_advance ==
  /\ budget.time > 0
  /\ budget' = Spend("time")
  /\ pacer' = [pacer EXCEPT !.now = @ + ClockStep]
  /\ UNCHANGED <<controls, probes, policy, service>>

\* ------------------------------------------------------- checkCameraStatus
\* RecordingService.js lines 128-161; App.js lines 178-211 hold the same code.
\* A promise settles once: resolve and reject on a settled promise do nothing.
Settle(p, outcome) == IF p.promise = "pending" THEN outcome ELSE p.promise

\* A timer that resolves
TimeoutSettles_resolved == "resolved"

\* Line 155: reject(false)
TimeoutSettles == "rejected"

\* History field: first is the first of the events open, error and timeout
\* of the probe.
First(p, event) == IF p.first = "none" THEN event ELSE p.first

\* checkCameraStatus(camera) is called: lines 128-156, up to the await.  new
\* WebSocket throws for an address that is no URL, and line 158 is reached.
checkCameraStatus_call(cam) ==
  /\ ~MicrotaskPending
  /\ budget.calls > 0
  /\ \E o \in IoOutcomes :
       /\ budget' = [AfterIo(o) EXCEPT !.calls = @ - 1]
       /\ probes' = probes \cup
            {[id |-> budget.calls, camera |-> cam, pc |-> "await",
              readyState |-> IF o = "ok" THEN "CONNECTING" ELSE "NONE",
              promise |-> IF o = "ok" THEN "pending" ELSE "thrown",
              timer |-> o = "ok", first |-> "none", result |-> "none"]}
  /\ UNCHANGED <<controls, pacer, policy, service>>

\* ws.onopen, lines 150-153
probe_onopen(p) ==
  /\ ~MicrotaskPending
  /\ p.readyState = "CONNECTING"
  /\ probes' = (probes \ {p}) \cup
       {[p EXCEPT !.readyState = "CLOSING",
                  !.promise = Settle(p, "resolved"),
                  !.first = First(p, "open")]}
  /\ UNCHANGED <<budget, controls, pacer, policy, service>>

\* ws.onerror, line 154: the connection fails
probe_onerror(p) ==
  /\ ~MicrotaskPending
  /\ p.readyState = "CONNECTING"
  /\ probes' = (probes \ {p}) \cup
       {[p EXCEPT !.readyState = "CLOSED",
                  !.promise = Settle(p, "rejected"),
                  !.first = First(p, "error")]}
  /\ UNCHANGED <<budget, controls, pacer, policy, service>>

\* The close that ws.close() began completes
probe_onclose(p) ==
  /\ ~MicrotaskPending
  /\ p.readyState = "CLOSING"
  /\ probes' = (probes \ {p}) \cup {[p EXCEPT !.readyState = "CLOSED"]}
  /\ UNCHANGED <<budget, controls, pacer, policy, service>>

\* The timer of line 155 fires, 2 s after the call
probe_timeout(p) ==
  /\ ~MicrotaskPending
  /\ p.timer
  /\ probes' = (probes \ {p}) \cup
       {[p EXCEPT !.timer = FALSE,
                  !.promise = Settle(p, TimeoutSettles),
                  !.first = First(p, "timeout")]}
  /\ UNCHANGED <<budget, controls, pacer, policy, service>>

\* The promise has settled or new WebSocket has thrown: lines 157-160
checkCameraStatus_return(p) ==
  /\ ProbeResumable(p)
  /\ LET result == IF p.promise = "resolved" THEN "Online" ELSE "Offline" IN
     /\ probes' = (probes \ {p}) \cup {[p EXCEPT !.pc = "done", !.result = result]}
     /\ returned' = [Return("checkCameraStatus", p.camera, result, 0) EXCEPT
                       !.args = <<p.id>>]
  /\ UNCHANGED <<budget, controls, pacer, policy, permission, disk,
                 activeRecordings, rec, sockets, files, assets, albums, starts,
                 stops, flushes, imgs>>

\* ----------------------------------------------------------- specifications
\* Nothing stored, nothing loaded, no call on the policy under way
NoPolicy ==
  /\ autoRecordingCameras = <<>>
  /\ storage = NoItem
  /\ sets = {}
  /\ loads = EmptyBag

\* The screen of cam1 is shown, the camera offline, nothing recorded or enabled
NoView ==
  [status |-> "Offline", isAutoRecordingEnabled |-> FALSE, isRecording |-> FALSE,
   persistentAutoRecording |-> FALSE]

\* App.js lines 43-44 and 167-169, at a time start of the clock, with
\* nothing scheduled.  state is the value that setIsProcessingFrame has set
\* and isProcessingFrame the value of the last render; forwards holds the
\* callbacks given to runAfterInteractions and not yet run.  History fields:
\* pushed counts the frames that have arrived, started lists the frames taken
\* from the queue with the time of the tick that took them, posted the frames
\* given to the WebView.
NoPacer ==
  [frameQueue |-> <<>>, lastFrameTime |-> 0, isProcessingFrame |-> FALSE,
   state |-> FALSE, frameRate |-> 30, rate |-> 30,
   frameProcessorTimeout |-> [armed |-> FALSE, at |-> 0, isProcessingFrame |-> FALSE,
                              frameRate |-> 0],
   forwards |-> {}, now |-> 1000, pushed |-> 0, started |-> <<>>, posted |-> <<>>]

NoApp ==
  /\ view = NoView
  /\ passive = <<>>
  /\ effects = {}
  /\ pacer = NoPacer
  /\ probes = {}

NoBudget ==
  [calls |-> 0, frames |-> 0, faults |-> 0, ages |-> 0, changes |-> 0, time |-> 0]

NoReturn ==
  [n |-> 0, fn |-> "none", camera |-> "none", result |-> "none", rec |-> 0,
   args |-> <<>>]

\* The session registry: start and stop calls of the UI in any interleaving,
\* with the sockets of the recordings opening, dropping and reconnecting.
Init ==
  /\ permission \in {"granted", "denied"}
  /\ disk = "ok"
  /\ activeRecordings = [c \in Cameras |-> 0]
  /\ rec = <<>>
  /\ sockets = <<>>
  /\ files = <<>>
  /\ assets = {}
  /\ albums = [c \in Cameras |-> {}]
  /\ starts = EmptyBag
  /\ stops = EmptyBag
  /\ flushes = {}
  /\ imgs = {}
  /\ returned = NoReturn
  /\ NoPolicy
  /\ NoApp
  /\ budget = [NoBudget EXCEPT !.calls = MaxCalls, !.faults = MaxFaults,
                               !.frames = MaxFrames]

Next ==
  \/ \E c \in Cameras : startRecording_call(c) /\ UNCHANGED app
  \/ \E st \in BagToSet(starts) : startRecording_perm(st) /\ UNCHANGED app
  \/ \E st \in BagToSet(starts) : startRecording_mkdir(st) /\ UNCHANGED app
  \/ \E c \in Ids(sockets) : ws_onopen(c) /\ UNCHANGED app
  \/ \E c \in Ids(sockets) : ws_onclose(c) /\ UNCHANGED app
  \/ \E c \in Ids(sockets) : reconnectTimer(c) /\ UNCHANGED app
  \/ \E c \in Ids(sockets) : ws_onmessage(c, "valid") /\ UNCHANGED app
  \/ \E m \in imgs : _saveFrameAsImage_dir(m) /\ UNCHANGED app
  \/ \E m \in imgs : _saveFrameAsImage_write(m) /\ UNCHANGED app
  \/ \E f \in flushes : _writeFramesToFile_info(f) /\ UNCHANGED app
  \/ \E f \in flushes : _writeFramesToFile_write(f) /\ UNCHANGED app
  \/ \E f \in flushes : _writeFramesToFile_wimg(f) /\ UNCHANGED app
  \/ \E c \in Cameras : stopRecording_call(c) /\ UNCHANGED app
  \/ \E s \in BagToSet(stops) : stopRecording_flushed(s) /\ UNCHANGED app
  \/ \E s \in BagToSet(stops) : stopRecording_finfo(s) /\ UNCHANGED app
  \/ \E s \in BagToSet(stops) : stopRecording_asset(s) /\ UNCHANGED app
  \/ \E s \in BagToSet(stops) : stopRecording_album(s) /\ UNCHANGED app
  \/ \E s \in BagToSet(stops) : stopRecording_unregister(s) /\ UNCHANGED app

Spec == Init /\ [][Next]_vars

\* One recording under way: started, connected, its first file named, and
\* errors invalid frames received so far (a state Spec reaches).  From there:
\* frames, flushes with failing native calls, the fallback, and a stop.
Recording0(errors) ==
  [RotateEnd(RotateBegin(NewRecording("cam1")), 1) EXCEPT
     !.ws = 1, !.wsConnected = TRUE, !.frameCount = errors,
     !.base64ErrorCount = errors]

Started(errors) ==
  /\ permission = "granted"
  /\ activeRecordings = [c \in Cameras |-> IF c = "cam1" THEN 1 ELSE 0]
  /\ rec = <<Recording0(errors)>>
  /\ sockets = <<[NewSocket(1, "start") EXCEPT !.readyState = "OPEN"]>>
  /\ files = <<NewFile(1, "start")>>
  /\ assets = {}
  /\ albums = [c \in Cameras |-> {}]
  /\ starts = EmptyBag
  /\ stops = EmptyBag
  /\ flushes = {}
  /\ imgs = {}
  /\ returned = [n |-> 1, fn |-> "startRecording", camera |-> "cam1",
                 result |-> "true", rec |-> 1, args |-> <<>>]
  /\ NoApp

UnderWay(errors) == Started(errors) /\ NoPolicy

InitWrite ==
  /\ \E errors \in {0, errorThreshold} : UnderWay(errors)
  /\ disk = "ok"
  /\ budget = [NoBudget EXCEPT !.frames = WriteFrames, !.faults = WriteFaults,
                               !.ages = WriteAges, !.calls = 1]

NextWrite ==
  \/ \E c \in Ids(sockets) : ws_onopen(c) /\ UNCHANGED app
  \/ \E c \in Ids(sockets) : ws_onclose(c) /\ UNCHANGED app
  \/ \E c \in Ids(sockets) : reconnectTimer(c) /\ UNCHANGED app
  \/ \E c \in Ids(sockets), d \in {"invalid", "valid"} : ws_onmessage(c, d) /\ UNCHANGED app
  \/ \E m \in imgs : _saveFrameAsImage_dir(m) /\ UNCHANGED app
  \/ \E m \in imgs : _saveFrameAsImage_write(m) /\ UNCHANGED app
  \/ \E f \in flushes : _writeFramesToFile_rot(f) /\ UNCHANGED app
  \/ \E f \in flushes : _writeFramesToFile_info(f) /\ UNCHANGED app
  \/ \E f \in flushes : _writeFramesToFile_write(f) /\ UNCHANGED app
  \/ \E f \in flushes : _writeFramesToFile_wimg(f) /\ UNCHANGED app
  \/ \E f \in flushes : _writeFramesToFile_cimg(f) /\ UNCHANGED app
  \/ \E c \in Cameras : stopRecording_call(c) /\ UNCHANGED app
  \/ \E s \in BagToSet(stops) : stopRecording_flushed(s) /\ UNCHANGED app
  \/ \E s \in BagToSet(stops) : stopRecording_finfo(s) /\ UNCHANGED app
  \/ \E s \in BagToSet(stops) : stopRecording_asset(s) /\ UNCHANGED app
  \/ \E s \in BagToSet(stops) : stopRecording_album(s) /\ UNCHANGED app
  \/ \E s \in BagToSet(stops) : stopRecording_unregister(s) /\ UNCHANGED app

SpecWrite == InitWrite /\ [][NextWrite]_vars

\* The same recording, stopped once at any moment.  The event loop runs a
\* handler that is ready, and a native call that has been made answers: a
\* step that can be taken is taken.
InitStop ==
  /\ \E errors \in {0, errorThreshold} : UnderWay(errors)
  /\ disk = "ok"
  /\ budget = [NoBudget EXCEPT !.frames = StopFrames, !.faults = StopFaults,
                               !.ages = WriteAges, !.calls = 1]

SpecStop == InitStop /\ [][NextWrite]_vars /\ WF_vars(NextWrite)

\* The same recording, started by the auto-recording policy: cam1 is in the
\* list and in the storage.  Auto-recording is disabled once at any moment.
InitDisable ==
  /\ \E errors \in {0, errorThreshold} : Started(errors)
  /\ autoRecordingCameras = <<"cam1">>
  /\ storage = JSONstringify(<<"cam1">>)
  /\ sets = {}
  /\ loads = EmptyBag
  /\ disk = "ok"
  /\ budget = [NoBudget EXCEPT !.frames = DisableFrames,
                               !.faults = DisableFaults, !.calls = 1]

NextDisable ==
  \/ \E c \in Cameras, st \in {"Online", "Offline"} :
       setAutoRecording_call(c, FALSE, st) /\ UNCHANGED app
  \/ \E a \in sets : setAutoRecording_saved(a) /\ UNCHANGED app
  \/ \E c \in Ids(sockets) : ws_onopen(c) /\ UNCHANGED app
  \/ \E c \in Ids(sockets) : ws_onclose(c) /\ UNCHANGED app
  \/ \E c \in Ids(sockets) : reconnectTimer(c) /\ UNCHANGED app
  \/ \E c \in Ids(sockets), d \in {"invalid", "valid"} : ws_onmessage(c, d) /\ UNCHANGED app
  \/ \E m \in imgs : _saveFrameAsImage_dir(m) /\ UNCHANGED app
  \/ \E m \in imgs : _saveFrameAsImage_write(m) /\ UNCHANGED app
  \/ \E f \in flushes : _writeFramesToFile_rot(f) /\ UNCHANGED app
  \/ \E f \in flushes : _writeFramesToFile_info(f) /\ UNCHANGED app
  \/ \E f \in flushes : _writeFramesToFile_write(f) /\ UNCHANGED app
  \/ \E f \in flushes : _writeFramesToFile_wimg(f) /\ UNCHANGED app
  \/ \E f \in flushes : _writeFramesToFile_cimg(f) /\ UNCHANGED app
  \/ \E s \in BagToSet(stops) : stopRecording_flushed(s) /\ UNCHANGED app
  \/ \E s \in BagToSet(stops) : stopRecording_finfo(s) /\ UNCHANGED app
  \/ \E s \in BagToSet(stops) : stopRecording_asset(s) /\ UNCHANGED app
  \/ \E s \in BagToSet(stops) : stopRecording_album(s) /\ UNCHANGED app
  \/ \E s \in BagToSet(stops) : stopRecording_unregister(s) /\ UNCHANGED app

SpecDisable == InitDisable /\ [][NextDisable]_vars

\* The same recording with a storage that rejects every write
InitDiskFull ==
  /\ UnderWay(0)
  /\ disk = "full"
  /\ budget = [NoBudget EXCEPT !.frames = FullFrames]

NextDiskFull ==
  \/ \E c \in Ids(sockets) : ws_onmessage(c, "valid") /\ UNCHANGED app
  \/ \E m \in imgs : _saveFrameAsImage_dir(m) /\ UNCHANGED app
  \/ \E m \in imgs : _saveFrameAsImage_write(m) /\ UNCHANGED app
  \/ \E f \in flushes : _writeFramesToFile_info(f) /\ UNCHANGED app
  \/ \E f \in flushes : _writeFramesToFile_write(f) /\ UNCHANGED app
  \/ \E f \in flushes : _writeFramesToFile_wimg(f) /\ UNCHANGED app

SpecDiskFull == InitDiskFull /\ [][NextDiskFull]_vars

\* The policy: the service is constructed over a storage that holds nothing
\* or the list saved by an earlier run of the app; the UI enables and disables
\* auto-recording for cameras that are online or offline.
InitAuto ==
  /\ permission = "granted"
  /\ disk = "ok"
  /\ activeRecordings = [c \in Cameras |-> 0]
  /\ rec = <<>>
  /\ sockets = <<>>
  /\ files = <<>>
  /\ assets = {}
  /\ albums = [c \in Cameras |-> {}]
  /\ starts = EmptyBag
  /\ stops = EmptyBag
  /\ flushes = {}
  /\ imgs = {}
  /\ returned = NoReturn
  /\ autoRecordingCameras = <<>>
  /\ storage \in {NoItem, JSONstringify(<<"cam1">>)}
  /\ sets = {}
  /\ loads = One("constructor")
  /\ NoApp
  /\ budget = [NoBudget EXCEPT !.calls = AutoCalls, !.faults = AutoFaults]

NextAuto ==
  \/ \E c \in Cameras, e \in BOOLEAN, st \in {"Online", "Offline"} :
       setAutoRecording_call(c, e, st) /\ UNCHANGED app
  \/ \E a \in sets : setAutoRecording_started(a) /\ UNCHANGED app
  \/ \E a \in sets : setAutoRecording_saved(a) /\ UNCHANGED app
  \/ getAutoRecordingCameras_call /\ UNCHANGED app
  \/ \E by \in BagToSet(loads) : _loadAutoRecordingCameras_answer(by) /\ UNCHANGED app
  \/ \E st \in BagToSet(starts) : startRecording_perm(st) /\ UNCHANGED app
  \/ \E st \in BagToSet(starts) : startRecording_mkdir(st) /\ UNCHANGED app
  \/ \E c \in Ids(sockets) : ws_onopen(c) /\ UNCHANGED app
  \/ \E c \in Ids(sockets) : ws_onclose(c) /\ UNCHANGED app
  \/ \E c \in Ids(sockets) : reconnectTimer(c) /\ UNCHANGED app
  \/ \E s \in BagToSet(stops) : stopRecording_finfo(s) /\ UNCHANGED app
  \/ \E s \in BagToSet(stops) : stopRecording_unregister(s) /\ UNCHANGED app

SpecAuto == InitAuto /\ [][NextAuto]_vars

\* No function of the service or of the screen is under way
AtRest ==
  /\ starts = EmptyBag /\ stops = EmptyBag /\ sets = {} /\ loads = EmptyBag
  /\ flushes = {} /\ imgs = {}
  /\ passive = <<>> /\ effects = {}

\* The screen of a camera: its status changes, the user presses Auto, and
\* RecordingControls calls the service.  A change or a press comes when what
\* the one before has started is done; no native call rejects and no
\* connection drops.  The list is empty, or holds the camera from an earlier
\* visit of the screen.
InitControls ==
  /\ permission = "granted"
  /\ disk = "ok"
  /\ activeRecordings = [c \in Cameras |-> 0]
  /\ rec = <<>>
  /\ sockets = <<>>
  /\ files = <<>>
  /\ assets = {}
  /\ albums = [c \in Cameras |-> {}]
  /\ starts = EmptyBag
  /\ stops = EmptyBag
  /\ flushes = {}
  /\ imgs = {}
  /\ returned = NoReturn
  /\ \E on \in BOOLEAN :
       /\ autoRecordingCameras = IF on THEN <<shownCamera>> ELSE <<>>
       /\ storage = IF on THEN JSONstringify(<<shownCamera>>) ELSE NoItem
       /\ view = [NoView EXCEPT !.isAutoRecordingEnabled = on,
                                !.persistentAutoRecording = on]
  /\ sets = {}
  /\ loads = EmptyBag
  /\ passive = <<>>
  /\ effects = {}
  /\ pacer = NoPacer
  /\ probes = {}
  /\ budget = [NoBudget EXCEPT !.changes = ControlChanges]

NextControls ==
  \/ AtRest /\ \E s \in {"Online", "Offline"} : camera_status(s) /\ UNCHANGED <<pacer, probes>>
  \/ AtRest /\ onToggleAutoRecording /\ UNCHANGED <<pacer, probes>>
  \/ cleanup_run /\ UNCHANGED <<pacer, probes>>
  \/ checkRecordingState_run /\ UNCHANGED <<pacer, probes>>
  \/ updateAutoRecording_run /\ UNCHANGED <<pacer, probes>>
  \/ \E e \in effects : checkRecordingState_resume(e) /\ UNCHANGED <<pacer, probes>>
  \/ \E e \in effects : updateAutoRecording_resume(e) /\ UNCHANGED <<pacer, probes>>
  \/ \E e \in effects : startRecording_resume(e) /\ UNCHANGED <<pacer, probes>>
  \/ \E a \in sets : setAutoRecording_started(a) /\ UNCHANGED app
  \/ \E a \in sets : setAutoRecording_saved(a) /\ UNCHANGED app
  \/ \E st \in BagToSet(starts) : startRecording_perm(st) /\ UNCHANGED app
  \/ \E st \in BagToSet(starts) : startRecording_mkdir(st) /\ UNCHANGED app
  \/ \E c \in Ids(sockets) : ws_onopen(c) /\ UNCHANGED app
  \/ \E c \in Ids(sockets) : ws_onclose(c) /\ UNCHANGED app
  \/ \E s \in BagToSet(stops) : stopRecording_finfo(s) /\ UNCHANGED app
  \/ \E s \in BagToSet(stops) : stopRecording_unregister(s) /\ UNCHANGED app

SpecControls == InitControls /\ [][NextControls]_vars

\* The live view of a camera: App is mounted and the effect of lines 678-685
\* has run once, so that the timer is set; frames arrive at any rate.
InitPacer ==
  /\ permission = "granted"
  /\ disk = "ok"
  /\ activeRecordings = [c \in Cameras |-> 0]
  /\ rec = <<>>
  /\ sockets = <<>>
  /\ files = <<>>
  /\ assets = {}
  /\ albums = [c \in Cameras |-> {}]
  /\ starts = EmptyBag
  /\ stops = EmptyBag
  /\ flushes = {}
  /\ imgs = {}
  /\ returned = NoReturn
  /\ NoPolicy
  /\ view = NoView
  /\ passive = <<>>
  /\ effects = {}
  /\ pacer = processNextFrame(NoPacer, FALSE, NoPacer.frameRate)
  /\ probes = {}
  /\ budget = [NoBudget EXCEPT !.frames = PacerFrames, !.time = PacerTime]

NextPacer ==
  \/ onMessage_video
  \/ frameProcessorTimeout_fires
  \/ \E f \in pacer.forwards : runAfterInteractions_callback(f)
  \/ App_render
  \/ clock_advance

SpecPacer == InitPacer /\ [][NextPacer]_vars

\* The live view with config messages and rate changes of the user
InitRate ==
  /\ permission = "granted"
  /\ disk = "ok"
  /\ activeRecordings = [c \in Cameras |-> 0]
  /\ rec = <<>>
  /\ sockets = <<>>
  /\ files = <<>>
  /\ assets = {}
  /\ albums = [c \in Cameras |-> {}]
  /\ starts = EmptyBag
  /\ stops = EmptyBag
  /\ flushes = {}
  /\ imgs = {}
  /\ returned = NoReturn
  /\ NoPolicy
  /\ view = NoView
  /\ passive = <<>>
  /\ effects = {}
  /\ pacer = processNextFrame(NoPacer, FALSE, NoPacer.frameRate)
  /\ probes = {}
  /\ budget = [NoBudget EXCEPT !.frames = RateFrames, !.time = RateTime,
                               !.changes = RateChanges]

NextRate ==
  \/ \E w \in Widths, h \in Heights : onMessage_config(w, h)
  \/ \E d \in Deltas : handleFPSChange(d)
  \/ onMessage_video
  \/ frameProcessorTimeout_fires
  \/ \E f \in pacer.forwards : runAfterInteractions_callback(f)
  \/ App_render
  \/ clock_advance

SpecRate == InitRate /\ [][NextRate]_vars

\* A recording of a camera of the list, with frames, flushes, a disable and
\* the reads of the UI at any moment; no native call rejects.
InitRead ==
  /\ \E errors \in {0, errorThreshold} : Started(errors)
  /\ autoRecordingCameras = <<"cam1">>
  /\ storage = JSONstringify(<<"cam1">>)
  /\ sets = {}
  /\ loads = EmptyBag
  /\ disk = "ok"
  /\ budget = [NoBudget EXCEPT !.frames = ReadFrames, !.calls = ReadCalls]

NextRead ==
  \/ \E c \in Cameras : isRecording_call(c) /\ UNCHANGED app
  \/ \E c \in Cameras : getRecordingStats_call(c) /\ UNCHANGED app
  \/ \E c \in Cameras, st \in {"Online", "Offline"} :
       setAutoRecording_call(c, FALSE, st) /\ UNCHANGED app
  \/ \E a \in sets : setAutoRecording_saved(a) /\ UNCHANGED app
  \/ \E c \in Ids(sockets) : ws_onclose(c) /\ UNCHANGED app
  \/ \E c \in Ids(sockets), d \in {"invalid", "valid"} : ws_onmessage(c, d) /\ UNCHANGED app
  \/ \E f \in flushes : _writeFramesToFile_info(f) /\ UNCHANGED app
  \/ \E f \in flushes : _writeFramesToFile_write(f) /\ UNCHANGED app
  \/ \E s \in BagToSet(stops) : stopRecording_flushed(s) /\ UNCHANGED app
  \/ \E s \in BagToSet(stops) : stopRecording_finfo(s) /\ UNCHANGED app
  \/ \E s \in BagToSet(stops) : stopRecording_asset(s) /\ UNCHANGED app
  \/ \E s \in BagToSet(stops) : stopRecording_album(s) /\ UNCHANGED app
  \/ \E s \in BagToSet(stops) : stopRecording_unregister(s) /\ UNCHANGED app

SpecRead == InitRead /\ [][NextRead]_vars

\* The status of cameras is checked, by several calls at a time
InitProbe ==
  /\ permission = "granted"
  /\ disk = "ok"
  /\ activeRecordings = [c \in Cameras |-> 0]
  /\ rec = <<>>
  /\ sockets = <<>>
  /\ files = <<>>
  /\ assets = {}
  /\ albums = [c \in Cameras |-> {}]
  /\ starts = EmptyBag
  /\ stops = EmptyBag
  /\ flushes = {}
  /\ imgs = {}
  /\ returned = NoReturn
  /\ NoPolicy
  /\ NoApp
  /\ budget = [NoBudget EXCEPT !.calls = ProbeCalls, !.faults = ProbeFaults]

NextProbe ==
  \/ \E c \in Cameras : checkCameraStatus_call(c)
  \/ \E p \in probes : probe_onopen(p)
  \/ \E p \in probes : probe_onerror(p)
  \/ \E p \in probes : probe_onclose(p)
  \/ \E p \in probes : probe_timeout(p)
  \/ \E p \in probes : checkCameraStatus_return(p)

SpecProbe == InitProbe /\ [][NextProbe]_vars

\* One recording in video mode whose native calls all succeed: frames arrive
\* and are flushed, to the file that startRecording named and that nothing
\* has been written to, or to the file as the flush of the first
\* maxBufferSize frames has left it.
InitFlush ==
  /\ UnderWay(0)
  /\ disk = "ok"
  /\ budget = [NoBudget EXCEPT !.frames = FlushFrames, !.ages = FlushAges]

FirstFlushDone ==
  /\ permission = "granted"
  /\ activeRecordings = [c \in Cameras |-> IF c = "cam1" THEN 1 ELSE 0]
  /\ rec = <<FlushFinishRec([Recording0(0) EXCEPT !.frameCount = maxBufferSize])>>
  /\ sockets = <<[NewSocket(1, "start") EXCEPT !.readyState = "OPEN"]>>
  /\ files = <<[NewFile(1, "start") EXCEPT !.exists = TRUE,
                                           !.content = <<maxBufferSize>>]>>
  /\ assets = {}
  /\ albums = [c \in Cameras |-> {}]
  /\ starts = EmptyBag
  /\ stops = EmptyBag
  /\ flushes = {}
  /\ imgs = {}
  /\ returned = [n |-> 1, fn |-> "startRecording", camera |-> "cam1",
                 result |-> "true", rec |-> 1, args |-> <<>>]
  /\ NoApp
  /\ NoPolicy
  /\ disk = "ok"
  /\ budget = [NoBudget EXCEPT !.frames = FlushFrames, !.ages = FlushAges]

NextFlush ==
  \/ \E c \in Ids(sockets) : ws_onmessage(c, "valid") /\ UNCHANGED app
  \/ \E f \in flushes : _writeFramesToFile_rot(f) /\ UNCHANGED app
  \/ \E f \in flushes : _writeFramesToFile_info(f) /\ UNCHANGED app
  \/ \E f \in flushes : _writeFramesToFile_write(f) /\ UNCHANGED app

SpecFlush == (InitFlush \/ FirstFlushDone) /\ [][NextFlush]_vars

\* One recording and the video messages of its socket.  What the check of
\* lines 974-986 finds: "missing" is a payload that is absent, no string or
\* the empty string (line 974); "invalid" one that is empty once trimmed or
\* whose first character is outside the base64 alphabet (line 983).
Payloads == {"missing", "invalid", "valid"}

InitFrames ==
  /\ \E errors \in {0, errorThreshold} : UnderWay(errors)
  /\ disk = "ok"
  /\ budget = [NoBudget EXCEPT !.frames = FrameFrames, !.faults = FrameFaults]

NextFrames ==
  \/ \E c \in Ids(sockets), d \in Payloads : ws_onmessage(c, d) /\ UNCHANGED app
  \/ \E m \in imgs : _saveFrameAsImage_dir(m) /\ UNCHANGED app
  \/ \E m \in imgs : _saveFrameAsImage_write(m) /\ UNCHANGED app
  \/ \E f \in flushes : _writeFramesToFile_info(f) /\ UNCHANGED app
  \/ \E f \in flushes : _writeFramesToFile_write(f) /\ UNCHANGED app
  \/ \E f \in flushes : _writeFramesToFile_wimg(f) /\ UNCHANGED app
  \/ \E f \in flushes : _writeFramesToFile_cimg(f) /\ UNCHANGED app

SpecFrames == InitFrames /\ [][NextFrames]_vars

\* A recording is stopped and recordings are started: every stopRecording
\* call is made before the first startRecording call.
NoStartYet == starts = EmptyBag /\ returned.n = 1

InitRestart ==
  /\ UnderWay(0)
  /\ disk = "ok"
  /\ budget = [NoBudget EXCEPT !.calls = RestartCalls, !.frames = RestartFrames]

NextRestart ==
  \/ \E c \in Cameras : NoStartYet /\ stopRecording_call(c) /\ UNCHANGED app
  \/ \E c \in Cameras : startRecording_call(c) /\ UNCHANGED app
  \/ \E st \in BagToSet(starts) : startRecording_perm(st) /\ UNCHANGED app
  \/ \E st \in BagToSet(starts) : startRecording_mkdir(st) /\ UNCHANGED app
  \/ \E c \in Ids(sockets) : ws_onopen(c) /\ UNCHANGED app
  \/ \E c \in Ids(sockets) : ws_onclose(c) /\ UNCHANGED app
  \/ \E c \in Ids(sockets) : ws_onmessage(c, "valid") /\ UNCHANGED app
  \/ \E f \in flushes : _writeFramesToFile_info(f) /\ UNCHANGED app
  \/ \E f \in flushes : _writeFramesToFile_write(f) /\ UNCHANGED app
  \/ \E s \in BagToSet(stops) : stopRecording_flushed(s) /\ UNCHANGED app
  \/ \E s \in BagToSet(stops) : stopRecording_finfo(s) /\ UNCHANGED app
  \/ \E s \in BagToSet(stops) : stopRecording_asset(s) /\ UNCHANGED app
  \/ \E s \in BagToSet(stops) : stopRecording_album(s) /\ UNCHANGED app
  \/ \E s \in BagToSet(stops) : stopRecording_unregister(s) /\ UNCHANGED app

SpecRestart == InitRestart /\ [][NextRestart]_vars

\* ------------------------------------------------------------------ claims
\* The recordings that startRecording has put into the registry and that no
\* stopRecording has removed from it
RegisteredSessions(cam) ==
  {r \in Ids(rec) : rec[r].camera = cam /\ rec[r].registered}

\* C1: in every reachable state, whatever the interleaving of start and stop
\* calls, the registry holds at most one recording per camera: of the
\* recordings created for a camera at most one has not been removed, and it is
\* the one the registry maps the camera to.
C1_AtMostOneSessionPerCamera ==
  \A cam \in Cameras :
    /\ Cardinality(RegisteredSessions(cam)) <= 1
    /\ RegisteredSessions(cam) = {activeRecordings[cam]} \ {0}

\* Two start calls for one camera overlap: one has created the recording and
\* awaits its first file while the other awaits the permission answer.
C1_Witness ==
  \E a, b \in BagToSet(starts) :
    /\ a.camera = b.camera
    /\ a.pc = "mkdir" /\ b.pc = "perm"
    /\ activeRecordings[a.camera] = a.rec

\* The sockets and the files that startRecording made for a recording
MadeByStart(objects, r) ==
  {i \in Ids(objects) : objects[i].rec = r /\ objects[i].by = "start"}

StartSockets(r) == MadeByStart(sockets, r)

StartFiles(r) == MadeByStart(files, r)

\* This step returns from a startRecording / stopRecording call
StartReturns == returned'.n # returned.n /\ returned'.fn = "startRecording"

StopReturns == returned'.n # returned.n /\ returned'.fn = "stopRecording"

C2_Step ==
  /\ Len(rec') > Len(rec) =>
       /\ Len(rec') = Len(rec) + 1
       /\ RegisteredSessions(rec'[Len(rec')].camera) = {}
  /\ (StartReturns /\ permission = "granted" /\ returned'.rec = 0) =>
       /\ activeRecordings[returned'.camera] # 0
       /\ returned'.result = "true"
       /\ UNCHANGED <<activeRecordings, rec, sockets, files, assets, albums,
                      stops, flushes, imgs>>
  /\ (StartReturns /\ returned'.rec # 0 /\ returned'.result = "true") =>
       /\ Cardinality(MadeByStart(sockets', returned'.rec)) = 1
       /\ Cardinality(MadeByStart(files', returned'.rec)) = 1

\* C2: when start calls for one camera overlap, a recording is created only
\* for a camera that has none, startRecording names at most one first file and
\* opens at most one connection for it (exactly one of each once the creating
\* call has returned success), and a call that finds the recording of another
\* call returns success and changes nothing.
C2_OverlappingStartsCreateOnce ==
  /\ [](\A r \in Ids(rec) : /\ Cardinality(StartSockets(r)) <= 1
                            /\ Cardinality(StartFiles(r)) <= 1)
  /\ [][C2_Step]_vars

\* A second call has returned AlreadyRecording while the call that created
\* the recording is still waiting for the first file.
C2_Witness ==
  /\ returned.fn = "startRecording" /\ returned.result = "true" /\ returned.rec = 0
  /\ \E a \in BagToSet(starts) :
       /\ a.camera = returned.camera /\ a.pc = "mkdir"
       /\ activeRecordings[a.camera] = a.rec
       /\ StartSockets(a.rec) = {}

\* C3: a stop on a camera without recording returns success and changes no
\* state.
C3_StopWithoutSessionSucceeds ==
  [][(StopReturns /\ returned'.rec = 0) =>
       /\ returned'.result = "true"
       /\ UNCHANGED <<activeRecordings, rec, sockets, files, assets, albums,
                      starts, flushes, imgs>>]_vars

\* C4: while the media library permission is not granted a start call returns
\* failure, and no recording, file or connection is ever created.
C4_NoPermissionNoSession ==
  /\ [](permission # "granted" =>
          /\ rec = <<>> /\ sockets = <<>> /\ files = <<>>
          /\ \A cam \in Cameras : activeRecordings[cam] = 0)
  /\ [][(StartReturns /\ permission # "granted") =>
          /\ returned'.result = "false"
          /\ UNCHANGED <<activeRecordings, rec, sockets, files>>]_vars

\* A start call has been refused for want of the permission.
C4_Witness ==
  /\ permission = "denied"
  /\ returned.fn = "startRecording" /\ returned.result = "false"

\* C5: with the error threshold at 5, a recording in video mode whose last
\* errorThreshold + 1 writes of frames to its file have all failed is in
\* image-fallback mode.
C5_SixWriteFailuresFallBack ==
  \A r \in Ids(rec) :
    rec[r].failStreak >= errorThreshold + 1 => rec[r].useImageFallback

\* C6: once the image-fallback flag of a recording is true it is true in
\* every later state, whatever frames, writes, reconnects and stops follow.
C6_FallbackMonotonic ==
  [][\A r \in Ids(rec) : rec[r].useImageFallback => rec'[r].useImageFallback]_vars

\* A recording in fallback whose error counter a later successful write has
\* brought back to the threshold.
C6_Witness ==
  \E r \in Ids(rec) :
    /\ rec[r].useImageFallback
    /\ rec[r].base64ErrorCount <= errorThreshold
    /\ rec[r].successfulWrites > 0

\* The file a recording writes to, or wrote to last: the path named last
LastFile(R) == R.allFiles[Len(R.allFiles)]

\* C7: when a stop returns, the output file of the stopped recording, if it
\* holds bytes, is registered with the media library and attached to the album
\* of the camera, in video mode and in fallback mode alike.  Stated for the
\* runs in which no native call of the finalization rejected and no flush of
\* the recording is still in flight.
C7_StopFinalizesWrittenFile ==
  [][(StopReturns /\ returned'.rec # 0) =>
       LET R == rec'[returned'.rec] IN
       (/\ R.allFiles # <<>>
        /\ files'[LastFile(R)].content # <<>>
        /\ ~R.finalizeFailed
        /\ \A f \in flushes' : f.rec # returned'.rec)
       => /\ LastFile(R) \in assets'
          /\ LastFile(R) \in albums'[R.camera]]_vars

StopPending(cam) == \E s \in BagToSet(stops) : s.camera = cam

\* C9: every stopRecording call on a camera that has a recording eventually
\* returns, and when it has, the registry holds no recording for the camera:
\* whether the socket is connecting, open, closed or waiting to reconnect,
\* whether close() throws, the last flush fails or the finalization fails.
C9_StopCompletes ==
  \A cam \in Cameras :
    StopPending(cam) ~> (~StopPending(cam) /\ activeRecordings[cam] = 0)

\* A stop has returned although close() threw (the socket is still referenced)
\* and a native call of the finalization rejected.
C9_Witness ==
  /\ returned.fn = "stopRecording" /\ returned.result = "true"
  /\ returned.rec # 0
  /\ rec[returned.rec].ws # 0
  /\ rec[returned.rec].finalizeFailed
  /\ activeRecordings[returned.camera] = 0

\* C10: when setAutoRecording(camera, true) returns for a camera whose status
\* is Online, the permission being granted, isRecording(camera) is true,
\* whether or not the camera was in the list before.  Stated for the runs in
\* which no recording of the camera has been stopped and no other call is
\* under way when this one returns.
C10_EnableOnlineRecords ==
  [][(/\ returned'.n # returned.n
      /\ returned'.fn = "setAutoRecording"
      /\ returned'.args = <<TRUE, "Online">>
      /\ permission = "granted"
      /\ starts' = EmptyBag /\ sets' = {} /\ stops' = EmptyBag
      /\ \A r \in Ids(rec') :
           rec'[r].camera = returned'.camera => rec'[r].isActive)
     => LET r == activeRecordings'[returned'.camera] IN
        r # 0 /\ rec'[r].isActive]_vars

\* The camera is in a list; a registry maps the camera to an active recording
InList(list, cam) == \E i \in Ids(list) : list[i] = cam

ActiveIn(registry, recs, cam) ==
  registry[cam] # 0 /\ recs[registry[cam]].isActive

StatusEffectAtRest(s) ==
  /\ passive # <<>>
  /\ Head(passive).fn = "updateAutoRecording"
  /\ Head(passive).changed = "status"
  /\ Head(passive).v.status = s
  /\ view.isAutoRecordingEnabled /\ view.persistentAutoRecording
  /\ starts = EmptyBag /\ stops = EmptyBag /\ sets = {}
  /\ \A e \in effects : e.fn = "checkRecordingState"

\* C12: when the status of a camera that is in the auto-recording list and has
\* no recording in the registry changes to Online, the effect that answers
\* the change requests a start for the camera.  Stated for the changes that
\* find the screen and the service at rest.
C12_OnlineInPolicyRequestsStart ==
  [][(/\ StatusEffectAtRest("Online")
      /\ InList(autoRecordingCameras, shownCamera)
      /\ activeRecordings[shownCamera] = 0
      /\ passive' = Tail(passive))
     => \E st \in BagToSet(starts') : st.camera = shownCamera]_vars

\* C13: when the status of a camera that is in the auto-recording list and is
\* recording changes to Offline, the effect that answers the change calls
\* stopRecording of the service for the camera.  Stated for the changes that
\* find the screen and the service at rest.
C13_OfflineInPolicyStops ==
  [][(/\ StatusEffectAtRest("Offline")
      /\ InList(autoRecordingCameras, shownCamera)
      /\ ActiveIn(activeRecordings, rec, shownCamera)
      /\ view.isRecording
      /\ passive' = Tail(passive))
     => \E s \in BagToSet(stops') : s.camera = shownCamera]_vars

\* C14: after every arrival of a frame the queue holds at most 10 frames; an
\* arrival that finds 10 frames queued leaves the last four of them and the
\* new frame, in the order of arrival; so 11 arrivals with no frame taken
\* leave exactly the frames 7 to 11.
C14_QueueBoundedKeepsNewestFive ==
  [][pacer'.pushed = pacer.pushed + 1 =>
       LET q == pacer.frameQueue
           new == pacer.pushed + 1
       IN
       /\ Len(pacer'.frameQueue) <= 10
       /\ IF Len(q) = 10
            THEN pacer'.frameQueue = <<q[7], q[8], q[9], q[10], new>>
            ELSE pacer'.frameQueue = q \o <<new>>
       /\ (new = 11 /\ pacer.started = <<>>)
            => pacer'.frameQueue = <<7, 8, 9, 10, 11>>]_vars

\* Eleven frames have arrived, none has been taken, and the queue has been cut
C14_Witness ==
  /\ pacer.pushed = 11
  /\ pacer.started = <<>>
  /\ Len(pacer.frameQueue) = 5

\* C15: in every reachable state at most one frame has been taken from the
\* queue and not yet been given to the WebView.
C15_OneForwardInFlight == Cardinality(pacer.forwards) <= 1

\* C16: a tick takes at most one frame, and the ticks that take two
\* successive frames are at least 1000 / frameRate milliseconds apart.
C16_OneFramePerInterval ==
  /\ \A i \in 1..(Len(pacer.started) - 1) :
       IntervalPassed(pacer.started[i + 1].now - pacer.started[i].now,
                      pacer.frameRate)
  /\ Cardinality(pacer.forwards) + Len(pacer.posted) = Len(pacer.started)

\* C17: a call of isRecording or of getRecordingStats, at any moment of a
\* recording, changes no field of any recording object, nor the registry, nor
\* the auto-recording list and what is stored of it.
C17_ReadsChangeNothing ==
  [][(/\ returned'.n = returned.n + 1
      /\ returned'.fn \in {"isRecording", "getRecordingStats"})
     => /\ rec' = rec
        /\ activeRecordings' = activeRecordings
        /\ autoRecordingCameras' = autoRecordingCameras
        /\ storage' = storage]_vars

\* getRecordingStats has answered for a camera whose recording is being
\* flushed or stopped
C17_Witness ==
  /\ returned.fn = "getRecordingStats"
  /\ returned.result = "stats"
  /\ flushes # {} \/ stops # EmptyBag

\* C18: checkCameraStatus returns Online exactly when the open event of its
\* connection came before any error event and before the timeout, and Offline
\* otherwise; once the timeout has come the call has returned or is about to
\* return; and when it returns Online, close() has been called on the
\* connection.
C18_ProbeOnlineIffOpenFirst ==
  \A p \in probes :
    /\ p.pc = "done" =>
         /\ p.result \in {"Online", "Offline"}
         /\ p.result = "Online" <=> p.first = "open"
         /\ p.result = "Online" => p.readyState \in {"CLOSING", "CLOSED"}
    /\ (p.pc = "await" /\ p.promise = "pending") => p.timer

\* A call has returned Online while another one has timed out and returned
\* Offline before its connection opened.
C18_Witness ==
  \E p, q \in probes :
    /\ p.pc = "done" /\ p.result = "Online"
    /\ q.pc = "done" /\ q.result = "Offline" /\ q.first = "timeout"
    /\ q.readyState = "CLOSING"

\* C19: a step that takes a registered, active recording out of the registry
\* or makes it inactive is the call of stop for its camera.  No other step does
\* it: not a failed write, an invalid frame, or a socket that closes, with or
\* without an error (ws.onerror itself only logs, line 942).
C19_SessionStaysUntilStop ==
  [][\A cam \in Cameras :
       (/\ ActiveIn(activeRecordings, rec, cam)
        /\ ~(/\ activeRecordings'[cam] = activeRecordings[cam]
             /\ ActiveIn(activeRecordings', rec', cam)))
       => \E s \in BagToSet(stops') :
            /\ s.camera = cam
            /\ s.rec = activeRecordings[cam]
            /\ ~BagIn(s, stops)]_vars

\* The recording is registered and active after an invalid frame took its
\* error count over the threshold and its socket was dropped.
C19_Witness ==
  /\ ActiveIn(activeRecordings, rec, "cam1")
  /\ sockets[1].readyState = "CLOSED"
  /\ rec[1].base64ErrorCount > errorThreshold

\* The cameras of a list; the list that the storage holds
CamerasOf(list) == {list[i] : i \in Ids(list)}

PersistedList == IF storage.stored THEN JSONparse(storage) ELSE <<>>

\* C20: once every setAutoRecording call and every load of the list (the one
\* of the constructor, those of getAutoRecordingCameras) has completed, the
\* list in the storage holds the cameras of the list in memory, however the
\* calls and the loads interleaved.  Stated for the runs in which no native
\* call rejected.
C20_PersistedEqualsMemoryAtRest ==
  (/\ sets = {} /\ loads = EmptyBag /\ starts = EmptyBag
   /\ budget.faults = AutoFaults)
  => CamerasOf(PersistedList) = CamerasOf(autoRecordingCameras)

\* C21: when getRecordingStats answers for a recording whose current file
\* holds a frame that was written successfully, the currentFileSize and the
\* totalSize it reports are positive.
C21_StatsBytesPositiveOnceWritten ==
  [][(/\ returned'.n = returned.n + 1
      /\ returned'.fn = "getRecordingStats"
      /\ returned'.result = "stats"
      /\ rec[returned'.rec].currentFilePath # 0
      /\ files[rec[returned'.rec].currentFilePath].content # <<>>)
     => /\ returned'.args[2] > 0
        /\ returned'.args[3] > 0]_vars

\* C22: the frames of a recording are numbered as they arrive; in every file
\* the frames stand in the order of their arrival, also when a flush was
\* started while an earlier flush of the recording was awaiting its writes.
C22_FramesInArrivalOrder ==
  \A u \in Ids(files) :
    \A i, j \in Ids(files[u].content) :
      i < j => files[u].content[i] < files[u].content[j]

\* The frame is in the file
FrameIn(file, frame) == \E i \in Ids(file.content) : file.content[i] = frame

\* C23: when a flush whose writes have all succeeded ends, every frame of its
\* batch is in the file it wrote to, also when the file did not exist when the
\* flush began to write.
C23_FlushLeavesBatchInFile ==
  [][\A f \in flushes \ flushes' :
       (f.pc = "write" /\ f.i = Len(f.frames))
       => \A k \in Ids(f.frames) : FrameIn(files'[f.fileUri], f.frames[k])]_vars

\* C24: once a rotation has named the next file of a recording, every earlier
\* file of the recording that holds bytes is registered with the media
\* library.
C24_RotatedOutFileRegistered ==
  \A r \in Ids(rec) :
    \A i \in Ids(rec[r].allFiles) :
      (i < Len(rec[r].allFiles) /\ files[rec[r].allFiles[i]].content # <<>>)
      => rec[r].allFiles[i] \in assets

\* C25: while a stop is in the finalization of its recording's file, or past
\* it, no flush of that recording is under way, whoever started the flush.
C25_FinalizeAfterEveryFlush ==
  \A s \in BagToSet(stops) :
    s.pc \in {"finfo", "asset", "album", "unregister"}
    => \A f \in flushes : f.rec # s.rec

\* C26: in every state, a recording whose error counter is above the error
\* threshold is in image-fallback mode, whether a failed flush or an invalid
\* frame raised the counter.
C26_OverThresholdIsFallback ==
  \A r \in Ids(rec) :
    rec[r].base64ErrorCount > errorThreshold => rec[r].useImageFallback

\* C27: the error counter of a recording is never negative; a step in which
\* a write of a frame to the file fails raises it by one; a step that counts
\* a flush as a successful write lowers it by one, or leaves it at zero, and
\* is not the end of a flush whose last write of a frame failed.
C27_ErrorCounterLeakyBucket ==
  [][\A r \in Ids(rec) :
       /\ rec'[r].base64ErrorCount >= 0
       /\ rec'[r].failStreak > rec[r].failStreak
            => rec'[r].base64ErrorCount = rec[r].base64ErrorCount + 1
       /\ rec'[r].successfulWrites > rec[r].successfulWrites
            => /\ rec'[r].base64ErrorCount =
                    IF rec[r].base64ErrorCount > 0
                      THEN rec[r].base64ErrorCount - 1 ELSE 0
               /\ rec'[r].failStreak = 0]_vars

\* C28: the handling of a video message whose payload fails the validity
\* check raises the error counter of the recording by one, appends nothing to
\* the frame buffer, starts no flush and saves no image.
C28_InvalidFrameCountedAndDiscarded ==
  [][\A c \in Ids(sockets), d \in Payloads \ {"valid"} :
       ws_onmessage(c, d)
       => LET r == sockets[c].rec IN
          /\ rec'[r].base64ErrorCount = rec[r].base64ErrorCount + 1
          /\ rec'[r].frameBuffer = rec[r].frameBuffer
          /\ flushes' = flushes
          /\ imgs' = imgs]_vars

\* The frames of a sequence; the frames that the flushes of a set hold
FramesOf(q) == {q[i] : i \in Ids(q)}

Batched(fs, r) == UNION {FramesOf(f.frames) : f \in {g \in fs : g.rec = r}}

\* C29: after every step the frame buffer of a recording in video mode is
\* shorter than maxBufferSize; no frame is in the buffer and in the batch of
\* a flush, or in the batches of two flushes; and a valid frame that arrives
\* in video mode goes to the buffer, or with the whole buffer to the batch of
\* the flush that its arrival starts, also while earlier flushes are under
\* way.
C29_BufferBelowThreshold ==
  [][/\ \A r \in Ids(rec') :
          /\ ~rec'[r].useImageFallback
               => Len(rec'[r].frameBuffer) < maxBufferSize
          /\ FramesOf(rec'[r].frameBuffer) \cap Batched(flushes', r) = {}
          /\ \A f, g \in flushes' :
               (f.rec = r /\ g.rec = r /\ f # g)
               => FramesOf(f.frames) \cap FramesOf(g.frames) = {}
     /\ \A c \in Ids(sockets) :
          LET r == sockets[c].rec IN
          (ws_onmessage(c, "valid") /\ ~rec[r].useImageFallback)
          => /\ flushes \subseteq flushes'
             /\ FramesOf(rec'[r].frameBuffer) \cup Batched(flushes' \ flushes, r)
                  = FramesOf(rec[r].frameBuffer) \cup {rec[r].frameCount + 1}
             /\ Len(rec'[r].frameBuffer) + Cardinality(Batched(flushes' \ flushes, r))
                  = Len(rec[r].frameBuffer) + 1]_vars

\* A frame has arrived and waits in the buffer while the flush of the frames
\* before it is writing
C29_Witness ==
  \E f \in flushes :
    /\ f.rec = 1 /\ f.pc = "write"
    /\ ~rec[1].useImageFallback
    /\ rec[1].frameBuffer # <<>>
    /\ rec[1].frameBuffer[1] > f.frames[Len(f.frames)]

\* C30: the image files written for a recording carry the sequence numbers
\* 0, 1, 2, ... in the order in which they were written: no two saves of one
\* recording use the same file name, also when a frame arrives while an
\* earlier image write is in progress; and no step appends to the frame
\* buffer of a recording that is in fallback mode.
C30_ImageNamesDistinct ==
  [][\A r \in Ids(rec) :
       /\ \A i \in Ids(rec'[r].imageNames) : rec'[r].imageNames[i] = i - 1
       /\ rec[r].useImageFallback
            => Len(rec'[r].frameBuffer) <= Len(rec[r].frameBuffer)]_vars

\* The sockets of recording r, of a list of sockets, that satisfy P
SocketsOf(socks, r, P(_)) == {c \in Ids(socks) : socks[c].rec = r /\ P(socks[c])}

IsReconnect(w) == w.by = "reconnect"

IsClosed(w) == w.readyState = "CLOSED"

TimerArmed(w) == w.timer

\* C31: a socket that closes arms the reconnect timer exactly when the
\* recording is active; a step opens at most one connection; a reconnect
\* opens one only when the timer of a closed socket of the recording fires
\* and the recording is active; and as long as the recording is active, every
\* socket of it that has closed has its timer armed or has been followed by
\* exactly one reconnect.
C31_OneReconnectWhileActive ==
  [][/\ Len(sockets') <= Len(sockets) + 1
     /\ \A c \in Ids(sockets) :
          (~IsClosed(sockets[c]) /\ IsClosed(sockets'[c]))
          => sockets'[c].timer = rec[sockets[c].rec].isActive
     /\ \A k \in Ids(sockets') \ Ids(sockets) :
          IsReconnect(sockets'[k])
          => /\ rec[sockets'[k].rec].isActive
             /\ \E c \in Ids(sockets) :
                  /\ sockets[c].rec = sockets'[k].rec
                  /\ IsClosed(sockets[c])
                  /\ sockets[c].timer /\ ~sockets'[c].timer
     /\ \A r \in Ids(rec') :
          rec'[r].isActive
          => Cardinality(SocketsOf(sockets', r, IsReconnect))
               + Cardinality(SocketsOf(sockets', r, TimerArmed))
             = Cardinality(SocketsOf(sockets', r, IsClosed))]_vars

\* The socket of a reconnect has been closed by stop: no timer is armed
C31_Witness ==
  /\ Len(sockets) = 2
  /\ IsReconnect(sockets[2]) /\ IsClosed(sockets[2]) /\ ~sockets[2].timer
  /\ IsClosed(sockets[1]) /\ ~sockets[1].timer
  /\ ~rec[1].isActive

\* C32: a tick that takes a frame takes the last frame of the queue when the
\* queue holds more than 3 frames, and the first frame of the queue when it
\* holds 1 to 3.
C32_NewestWhenDeepElseOldest ==
  [][Len(pacer'.started) = Len(pacer.started) + 1 =>
       LET q == pacer.frameQueue
           taken == pacer'.started[Len(pacer'.started)].frame
       IN
       /\ Len(q) >= 1
       /\ Len(q) > 3 => taken = q[Len(q)]
       /\ Len(q) <= 3 => taken = q[1]]_vars

\* A tick has taken the newest of more than 3 frames, and the next tick the
\* first of a queue of two
C32_Witness ==
  /\ Len(pacer.started) = 2
  /\ pacer.started[1].frame > 3
  /\ pacer.started[2].frame = pacer.started[1].frame + 1
  /\ Len(pacer.frameQueue) = 1

\* C38: frames are numbered as they arrive; the frames that the ticks take
\* are taken, and given to the WebView, in strictly increasing order of
\* arrival, also after a tick that took the newest frame of a deep queue.
C38_ForwardsInArrivalOrder ==
  /\ \A i, j \in Ids(pacer.started) :
       i < j => pacer.started[i].frame < pacer.started[j].frame
  /\ \A i, j \in Ids(pacer.posted) :
       i < j => pacer.posted[i].frame < pacer.posted[j].frame

\* A tick has taken the newest frame of a deep queue, leaving older frames
\* behind it, and a later tick has taken a frame
C38_Witness ==
  /\ Len(pacer.posted) >= 2
  /\ pacer.posted[1].frame > 3

\* C33: in every state the frame rate that is set and the frame rate of the
\* last render are within 5 to 30; a config message with a width and a height
\* sets the rate to 15 when width * height is over 1,000,000, to 20 when it
\* is over 500,000 and to 30 otherwise; one without a width or without a
\* height leaves the rate as it is.
C33_RateWithinFiveToThirty ==
  [][/\ pacer'.rate \in 5..30
     /\ pacer'.frameRate \in 5..30
     /\ \A w \in Widths, h \in Heights :
          onMessage_config(w, h)
          => pacer'.rate =
               CASE w = 0 \/ h = 0 -> pacer.rate
                 [] w * h > 1000000 -> 15
                 [] w * h > 500000 -> 20
                 [] OTHER -> 30]_vars

\* The user has brought the rate down to 5 and a render has taken it over
C33_Witness == pacer.frameRate = 5 /\ pacer.rate = 5

\* C34: when startRecording returns false and the recording object it had
\* created is the only one the camera has had since the call began, the
\* registry holds no recording for the camera: isRecording(camera) is false.
C34_FailedStartLeavesNoSession ==
  [][(/\ StartReturns
      /\ returned'.result = "false"
      /\ returned'.rec # 0)
     => /\ activeRecordings'[returned'.camera] # returned'.rec
        /\ ~ActiveIn(activeRecordings', rec', returned'.camera)]_vars

\* C35: once stopRecording has completed for a recording (it has taken it out
\* of the registry), every socket of the recording is closing or closed, in
\* this state and in every later one, also when stop ran while the
\* startRecording that created the recording was awaiting the directory of
\* its first file.  Stated for the runs in which no native call rejected and
\* close() did not throw.
C35_NoConnectionAfterStop ==
  budget.faults = MaxFaults
  => \A r \in Ids(rec) :
       ~rec[r].registered
       => \A c \in Ids(sockets) :
            sockets[c].rec = r => sockets[c].readyState \in {"CLOSING", "CLOSED"}

\* C36: in the runs in which no stopRecording is called once a startRecording
\* has been called, a startRecording that has returned true leaves the camera
\* with a registered, active recording, also when it was called while an
\* earlier stop of the camera was flushing or finalizing.
C36_SuccessfulStartLeavesSession ==
  (/\ returned.fn = "startRecording"
   /\ returned.n > 1
   /\ returned.result = "true")
  => ActiveIn(activeRecordings, rec, returned.camera)

IsLive(w) == w.readyState \in {"CONNECTING", "OPEN"}

\* C37: a recording has at most one connection that is connecting or open,
\* and every connection of a recording but its last one has closed: a
\* reconnect opens a connection only after the one before it has closed.
C37_OneLiveConnection ==
  \A r \in Ids(rec) :
    /\ Cardinality(SocketsOf(sockets, r, IsLive)) <= 1
    /\ \A c, d \in Ids(sockets) :
         (sockets[c].rec = r /\ sockets[d].rec = r /\ c < d)
         => IsClosed(sockets[c])

\* A reconnect of an active recording is open after its first socket closed
C37_Witness ==
  /\ Len(sockets) = 2
  /\ sockets[1].rec = sockets[2].rec
  /\ IsClosed(sockets[1])
  /\ IsReconnect(sockets[2]) /\ sockets[2].readyState = "OPEN"
  /\ rec[sockets[2].rec].isActive

NoDuplicates(list) == \A i, j \in Ids(list) : list[i] = list[j] => i = j

\* C39: the list of auto-recording cameras never holds two entries with the
\* same address, and a call of setAutoRecording(camera, false) leaves the
\* list with no entry of that address.
C39_PolicyListDuplicateFree ==
  [][/\ NoDuplicates(autoRecordingCameras)
     /\ NoDuplicates(autoRecordingCameras')
     /\ \A c \in Cameras, st \in {"Online", "Offline"} :
          setAutoRecording_call(c, FALSE, st)
          => ~InList(autoRecordingCameras', c)]_vars

\* A camera has been enabled twice and is in the list once
C39_Witness ==
  /\ \E a, b \in sets :
       /\ a.id # b.id
       /\ a.camera = b.camera
       /\ a.enable /\ b.enable
       /\ autoRecordingCameras = <<a.camera>>

====
